---- MODULE Spec2Model ----
(***************************************************************************)
(* A model of the Arcam AVR Session (arcam/connection.py,                  *)
(* class ArcamConnection) together with the asyncio event loop that runs   *)
(* its coroutines.                                                         *)
(*                                                                         *)
(* Every coroutine runs as a task.  A task runs from one suspension point  *)
(* (an await that really waits) to the next in one atomic step; the tasks  *)
(* that are ready to run are kept in the FIFO queue `ready`, as the event  *)
(* loop's call_soon queue does.  Everything that comes from outside the    *)
(* event loop (a caller invoking the API, bytes or end-of-stream from the  *)
(* device, a timer that fires, the outcome of open_connection) is an       *)
(* action that makes a task ready.                                         *)
(***************************************************************************)
EXTENDS Integers, Sequences, FiniteSets, TLC

\* ---------------------------------------------------------------- constants
MAX_RECONNECT_ATTEMPTS == 5
RECONNECT_DELAY_BASE == 1
START_BYTE == 33
END_BYTE == 13
ANSWER_OK == 0
ANSWER_COMMAND_NOT_RECOGNIZED == 131
VERSION_LENGTH == 12
BYTE_MAX == 255
POWER == 0
SOFTWARE_VERSION == 4
RC5_SIMULATE == 8
VOLUME == 13
MUTE == 14
SOURCE == 29
STATUS_REQUEST == 240
MAX_VOLUME == 99

\* ---------------------------------------------------------------- bounds
NumCallers == 2
MaxListeners == 2
MaxReconnectTasks == 2
MaxSocks == 2
MaxBuf == 1
MaxReady == 1
MaxByte == 1
MaxStream == 7
MaxPayload == 13
MaxData == 2
MaxMuteCalls == 2

Callers == 1..NumCallers
ListenerSlots == 1..MaxListeners
ReconnectSlots == 1..MaxReconnectTasks
Socks == 1..MaxSocks

\* ---------------------------------------------------------------- tasks
Caller(c) == [k |-> "C", n |-> c]
Listener(i) == [k |-> "L", n |-> i]
Reconnector(j) == [k |-> "R", n |-> j]
Api == [k |-> "A", n |-> 0]
Handler == [k |-> "H", n |-> 0]
ConnLost(s) == [k |-> "CL", n |-> s]
NoTask == [k |-> "none", n |-> 0]

CallerTasks == {Caller(c) : c \in Callers}
ListenerTasks == {Listener(i) : i \in ListenerSlots}
ReconnectTasks == {Reconnector(j) : j \in ReconnectSlots}
Tasks == CallerTasks \cup ListenerTasks \cup ReconnectTasks \cup {Api}

\* ---------------------------------------------------------------- frames
ReplyTo(c) == [k |-> "reply", c |-> c]
Bcast == [k |-> "bcast", c |-> 0]
NoFrame == [k |-> "none", c |-> 0]

FreeSock == [st |-> "free", up |-> FALSE, eof |-> FALSE, exc |-> FALSE,
             buf |-> <<>>, waiter |-> NoTask, pend |-> {}, tout |-> FALSE]

VARIABLES
    connected,   \* self._connected
    reader,      \* self._reader: a socket, 0 for None
    writer,      \* self._writer: a socket, 0 for None
    callback,    \* self._broadcast_callback is set
    btask,       \* self._broadcast_task: a listener slot, 0 for None
    rtask,       \* self._reconnect_task: a reconnect slot, 0 for None
    attempts,    \* self._reconnect_attempts
    lock,        \* self._command_lock: the caller holding it, 0 when free
    lockq,       \* the callers waiting for the lock, in order
    pc,          \* where each task is
    wk,          \* why a ready task was made ready
    rsock,       \* the socket a task's pending read is on
    aop,         \* the API operation the Api task is running
    aw,          \* the task or socket the Api task awaits
    ready,       \* the event loop's queue of ready tasks
    sock,        \* the sockets (transport, StreamReader, device side)
    made,        \* each reconnection task's attempts since the Session was
                 \* last connected or lost its connection
    delay,       \* the delay of each reconnection task's last sleep
    hist,        \* what the last step did, for the properties
    pin,         \* the input of a function applied on its own
    pout         \* what the function returned or raised

vars == <<connected, reader, writer, callback, btask, rtask, attempts, lock,
          lockq, pc, wk, rsock, aop, aw, ready, sock, made, delay, hist,
          pin, pout>>

NoOutput == [k |-> "none"]

\* What one step did: the send_command call that ended in it (caller, result,
\* frame returned), the frames a listener read in it and those it passed to
\* the callback, whether a command was written while a listener was blocked
\* in its read, whether a read found the end of the stream, what the
\* reconnection code did, the API call that returned, why a listener ended,
\* the listener that was resumed by its poll timeout, whether connect()
\* returned without connecting, and whether the reconnection task connected
\* a Session that had no socket handles.  Every step starts from InitHist.
InitHist == [caller |-> 0, res |-> "none", f |-> NoFrame,
             lread |-> {}, cbf |-> {}, wrote |-> 0, listening |-> FALSE,
             eof |-> FALSE, op |-> "none", made |-> 0, leak |-> FALSE,
             api |-> "none", ares |-> "none", lexit |-> "none",
             ltimeout |-> 0, noop |-> FALSE, revived |-> FALSE]

\* The state as one record: the operations are functions on it.
Cur == [connected |-> connected, reader |-> reader, writer |-> writer,
        callback |-> callback, btask |-> btask, rtask |-> rtask,
        attempts |-> attempts, lock |-> lock, lockq |-> lockq, pc |-> pc,
        wk |-> wk, rsock |-> rsock, aop |-> aop, aw |-> aw, ready |-> ready,
        sock |-> sock, made |-> made, delay |-> delay, hist |-> InitHist,
        ok |-> TRUE]

Range(q) == {q[n] : n \in DOMAIN q}

InitSession ==
    /\ connected = FALSE
    /\ reader = 0
    /\ writer = 0
    /\ callback = FALSE
    /\ btask = 0
    /\ rtask = 0
    /\ attempts = 0
    /\ lock = 0
    /\ lockq = <<>>
    /\ pc = [t \in Tasks |-> IF t \in CallerTasks \cup {Api} THEN "idle" ELSE "free"]
    /\ wk = [t \in Tasks |-> "none"]
    /\ rsock = [t \in Tasks |-> 0]
    /\ aop = "none"
    /\ aw = NoTask
    /\ ready = <<>>
    /\ sock = [s \in Socks |-> FreeSock]
    /\ made = [j \in ReconnectSlots |-> 0]
    /\ delay = [j \in ReconnectSlots |-> 0]
    /\ hist = InitHist

Init ==
    /\ InitSession
    /\ pin = [fn |-> "none"]
    /\ pout = NoOutput

\* ---------------------------------------------------------------- event loop
\* call_soon: a task is in the queue at most once.
Enq(st, t) ==
    IF t \in Range(st.ready) THEN st ELSE [st EXCEPT !.ready = Append(@, t)]

\* asyncio.create_task(self._handle_connection_lost()): a new task each time.
EnqHandler(st) == [st EXCEPT !.ready = Append(@, Handler)]

Suspended(st, t) == t \notin Range(st.ready)

\* Task.cancel(): the task is resumed with CancelledError.
Cancel(st, t) == Enq([st EXCEPT !.wk[t] = "cancel"], t)

\* A reference to a task that has ended (task.done() is true).
Finished == -1

\* A task ends: whoever awaits it is resumed.  Its slot is free again; the
\* field that refers to it now refers to a finished task.
TaskDone(st, t) ==
    LET st1 == [st EXCEPT !.pc[t] = "free", !.wk[t] = "none", !.rsock[t] = 0,
                          !.btask = IF t = Listener(@) THEN Finished ELSE @,
                          !.rtask = IF t = Reconnector(@) THEN Finished ELSE @,
                          !.made = IF t.k = "R" THEN [@ EXCEPT ![t.n] = 0] ELSE @,
                          !.delay = IF t.k = "R" THEN [@ EXCEPT ![t.n] = 0] ELSE @]
    IN IF st.aw = t THEN Enq([st1 EXCEPT !.aw = NoTask], Api) ELSE st1

\* The task's pending read is over: StreamReader._wait_for_data's finally.
EndRead(st, t) ==
    LET s == st.rsock[t]
        st1 == [st EXCEPT !.wk[t] = "none", !.rsock[t] = 0]
    IN IF s # 0 /\ st.sock[s].waiter = t
       THEN [st1 EXCEPT !.sock[s].waiter = NoTask] ELSE st1

\* StreamReader.feed_data / feed_eof / set_exception wake the waiting reader.
WakeWaiter(st, s) ==
    LET w == st.sock[s].waiter
    IN IF w = NoTask THEN st
       ELSE Enq([st EXCEPT !.sock[s].waiter = NoTask,
                           !.wk[w] = IF @ = "none" THEN "data" ELSE @], w)

\* StreamReader.read(n) called by task t on socket s.
ReadNow(st, s, t) ==
    LET k == st.sock[s] IN
    IF k.exc THEN [out |-> "oserror", f |-> NoFrame, st |-> st]
    ELSE IF k.buf # <<>>
    THEN [out |-> "frame", f |-> Head(k.buf),
          st |-> [st EXCEPT !.sock[s].buf = Tail(@)]]
    ELSE IF k.eof THEN [out |-> "short", f |-> NoFrame,
                        st |-> [st EXCEPT !.hist.eof = (k.st = "open")]]
    ELSE IF k.waiter # NoTask THEN [out |-> "runtime", f |-> NoFrame, st |-> st]
    ELSE [out |-> "wait", f |-> NoFrame,
          st |-> [st EXCEPT !.sock[s].waiter = t, !.rsock[t] = s]]

\* StreamReader.read(n) resumed after its wait: it returns what is buffered.
ReadWoken(st, s) ==
    LET k == st.sock[s] IN
    IF k.exc THEN [out |-> "oserror", f |-> NoFrame, st |-> st]
    ELSE IF k.buf # <<>>
    THEN [out |-> "frame", f |-> Head(k.buf),
          st |-> [st EXCEPT !.sock[s].buf = Tail(@)]]
    ELSE [out |-> "short", f |-> NoFrame,
          st |-> [st EXCEPT !.hist.eof = (k.eof /\ k.st = "open")]]

is_connected(st) ==
    st.connected /\ st.writer # 0 /\ st.sock[st.writer].st = "open"

InFlight(st, c) == st.pc[Caller(c)] = "reply"

\* ---------------------------------------------------------------- slots
FreeListeners(st) == {i \in ListenerSlots : st.pc[Listener(i)] = "free"}
FreeReconnectors(st) == {j \in ReconnectSlots : st.pc[Reconnector(j)] = "free"}
FreeSocks(st) == {s \in Socks : st.sock[s].st = "free"}
Lowest(S) == CHOOSE x \in S : \A y \in S : x <= y
Overflow(st) == [st EXCEPT !.ok = FALSE]

\* A socket nothing refers to any more leaves the model, and the sockets
\* left are renumbered from 1 in their order.
Norm(st) ==
    LET used(s) == \/ st.reader = s \/ st.writer = s
                   \/ st.sock[s].waiter # NoTask
                   \/ \E t \in Tasks : st.rsock[t] = s
                   \/ ConnLost(s) \in Range(st.ready)
                   \/ st.aw = ConnLost(s)
        U == {s \in Socks : used(s)}
        new(s) == IF s = 0 THEN 0 ELSE Cardinality({u \in U : u <= s})
        old(n) == CHOOSE s \in U : new(s) = n
        ren(t) == IF t.k = "CL" THEN ConnLost(new(t.n)) ELSE t
    IN [st EXCEPT
          !.sock = [n \in Socks |-> IF n <= Cardinality(U)
                                    THEN st.sock[old(n)] ELSE FreeSock],
          !.reader = new(@), !.writer = new(@),
          !.rsock = [t \in Tasks |-> new(st.rsock[t])],
          !.aw = ren(@),
          !.ready = [n \in DOMAIN st.ready |-> ren(st.ready[n])]]

\* ---------------------------------------------------------------- send_command
\* Lock.release() that frees the lock and wakes no waiter.
ReleaseLockNoWake(st) == [st EXCEPT !.lock = 0]

\* Leaving `async with self._command_lock`: Lock.release() hands the lock to
\* the first waiter and makes it ready.
ReleaseLock(st) ==
    IF st.lockq = <<>> THEN [st EXCEPT !.lock = 0]
    ELSE Enq([st EXCEPT !.lock = Head(st.lockq), !.lockq = Tail(st.lockq)],
             Caller(Head(st.lockq)))

\* The command of caller c is given up: a reply to it that is still to be
\* read, or still to come, is from now on a frame like any other the device
\* sends unasked.
Retire(st, c) ==
    LET stale(f) == IF f = ReplyTo(c) THEN Bcast ELSE f
    IN [st EXCEPT !.sock = [s \in Socks |->
          [st.sock[s] EXCEPT
             !.buf = [n \in DOMAIN st.sock[s].buf |-> stale(st.sock[s].buf[n])],
             !.pend = st.sock[s].pend \ {c}]]]

\* send_command returns or raises: result r, frame f.  After a timeout or a
\* connection error the reply is no longer awaited.
Finish(st, c, r, f) ==
    LET st1 == [st EXCEPT !.pc[Caller(c)] = "idle", !.wk[Caller(c)] = "none",
                          !.rsock[Caller(c)] = 0,
                          !.hist.caller = c, !.hist.res = r, !.hist.f = f]
    IN ReleaseLock(IF r \in {"timeout", "connection"}
                   THEN Retire(st1, c) ELSE st1)

\* Lines 162-176: decode_response raises ProtocolError on a malformed frame;
\* a frame with another command code is logged and returned.
Decode(st, c, f) ==
    IF f.k = "bad" THEN Finish(st, c, "protocol", NoFrame)
    ELSE Finish(st, c, "ok", f)

\* The except clauses of send_command with ProtocolError treated like an I/O
\* error: an incomplete frame schedules _handle_connection_lost too.
ReadFailedAllLost(st, c, out) ==
    CASE out = "timeout" -> Finish(EnqHandler(st), c, "timeout", NoFrame)
      [] out = "oserror" -> Finish(EnqHandler(st), c, "connection", NoFrame)
      [] out = "short"   -> Finish(EnqHandler(st), c, "protocol", NoFrame)
      [] out = "runtime" -> Finish(st, c, "runtime", NoFrame)

\* Lines 178-188: the except clauses of send_command.
ReadFailed(st, c, out) ==
    CASE out = "timeout" -> Finish(EnqHandler(st), c, "timeout", NoFrame)
      [] out = "oserror" -> Finish(EnqHandler(st), c, "connection", NoFrame)
      [] out = "short"   -> Finish(st, c, "protocol", NoFrame)
      [] out = "runtime" -> Finish(st, c, "runtime", NoFrame)

\* Transport.write on a socket whose peer is gone fails in the OS: the
\* transport is closed with the error, which drain() raises.
WriteFails(st, s) ==
    WakeWaiter([st EXCEPT !.sock[s].st = "closed", !.sock[s].exc = TRUE,
                          !.sock[s].buf = <<>>], s)

\* The not-connected branch with the scheduling of _handle_connection_lost that
\* the except clauses of lines 178-188 do.
NotConnectedReconnects(st, c) ==
    Finish(EnqHandler(st), c, "notconnected", NoFrame)

\* Lines 138-139: raise ArcamConnectionError("Not connected to device").
NotConnected(st, c) == Finish(st, c, "notconnected", NoFrame)

\* Lines 138-159, with the lock held: check, encode, write, drain, read.
SendBody(st, c, wfail) ==
    IF ~is_connected(st) THEN NotConnected(st, c)
    ELSE LET s == st.writer
             lst == \E i \in ListenerSlots : st.sock[s].waiter = Listener(i)
         IN IF wfail
            THEN ReadFailed(WriteFails(st, s), c, "oserror")
            ELSE LET st1 == [Retire(st, c) EXCEPT
                               !.sock[s].pend = IF st.sock[s].up
                                                THEN @ \cup {c} ELSE @,
                               !.hist.wrote = c, !.hist.listening = lst]
                     rd == ReadNow(st1, st1.reader, Caller(c))
                 IN CASE rd.out = "frame" -> Decode(rd.st, c, rd.f)
                      [] rd.out = "wait" ->
                            [rd.st EXCEPT !.pc[Caller(c)] = "reply"]
                      [] OTHER -> ReadFailed(rd.st, c, rd.out)

\* The caller is resumed in Lock.acquire(): with the lock, or with the
\* CancelledError of its cancelled task, which leaves the queue of the lock
\* and passes the lock on if it was handed to the caller already.  A
\* CancelledError is caught by no except clause of send_command.
LockResume(st, c, wfail) ==
    IF st.wk[Caller(c)] # "cancel" THEN SendBody(st, c, wfail)
    ELSE IF st.lock = c THEN Finish(st, c, "cancelled", NoFrame)
    ELSE [st EXCEPT !.lockq = SelectSeq(@, LAMBDA d : d # c),
                    !.pc[Caller(c)] = "idle", !.wk[Caller(c)] = "none",
                    !.hist.caller = c, !.hist.res = "cancelled"]

\* send_command without its `async with self._command_lock`.
SendCommandUnlocked(st, c, wfail) == SendBody(st, c, wfail)

\* Line 137: Lock.acquire() takes a free lock at once, else the caller waits.
SendCommand(st, c, wfail) ==
    IF st.lock = 0
    THEN SendBody([st EXCEPT !.lock = c], c, wfail)
    ELSE [st EXCEPT !.lockq = Append(@, c), !.pc[Caller(c)] = "lock"]

\* The caller is resumed in wait_for(self._read_response(), timeout).
\* send_command that writes its command once more when the reply timed out.
SendResumeResends(st, c) ==
    LET t == Caller(c)
        s == st.rsock[t]
        st1 == EndRead(st, t)
    IN IF st.wk[t] = "cancel" THEN Finish(st1, c, "cancelled", NoFrame)
       ELSE IF st.wk[t] = "timeout"
       THEN ReadFailed([st1 EXCEPT !.sock[s].tout = TRUE, !.hist.wrote = c],
                       c, "timeout")
       ELSE LET rd == ReadWoken(st1, s)
            IN IF rd.out = "frame" THEN Decode(rd.st, c, rd.f)
               ELSE ReadFailed(rd.st, c, rd.out)

SendResume(st, c) ==
    LET t == Caller(c)
        s == st.rsock[t]
        st1 == EndRead(st, t)
    IN IF st.wk[t] = "cancel" THEN Finish(st1, c, "cancelled", NoFrame)
       ELSE IF st.wk[t] = "timeout"
       THEN ReadFailed([st1 EXCEPT !.sock[s].tout = TRUE], c, "timeout")
       ELSE LET rd == ReadWoken(st1, s)
            IN IF rd.out = "frame" THEN Decode(rd.st, c, rd.f)
               ELSE ReadFailed(rd.st, c, rd.out)

\* ---------------------------------------------------------------- listener
\* Lines 275-276.
Deliver(st, f) ==
    IF st.callback THEN [st EXCEPT !.hist.cbf = @ \cup {f}] ELSE st

NoteRead(st, f) == [st EXCEPT !.hist.lread = @ \cup {f}]

\* Lines 284-288: the listener task ends, by the break of line 283, by its
\* loop condition or by cancellation; why is kept for the properties.
ListenerEnd(st, i, why) ==
    TaskDone([st EXCEPT !.hist.lexit = why], Listener(i))

\* The exception a failed read raises in the listener.
ReadError(out) ==
    CASE out = "short" -> "short"
      [] out = "runtime" -> "runtime"
      [] OTHER -> "oserror"

\* Lines 252-283: the loop of _broadcast_listener from its top until the task
\* suspends in a read or ends.
RECURSIVE ListenerLoop(_, _)
ListenerLoop(st, i) ==
    IF ~is_connected(st) THEN ListenerEnd(st, i, "notconnected")
    ELSE LET s == st.reader IN
         IF st.sock[s].eof /\ st.sock[s].buf = <<>>
         THEN ListenerEnd([st EXCEPT !.hist.eof = (st.sock[s].st = "open")],
                          i, "eof")
         ELSE LET rd == ReadNow(st, s, Listener(i))
              IN CASE rd.out = "wait" ->
                        [rd.st EXCEPT !.pc[Listener(i)] = "poll"]
                   [] rd.out = "frame" /\ rd.f.k # "bad" ->
                        ListenerLoop(Deliver(NoteRead(rd.st, rd.f), rd.f), i)
                   [] rd.out = "frame" /\ rd.f.k = "bad" ->
                        ListenerEnd(NoteRead(rd.st, rd.f), i, "bad")
                   [] OTHER -> ListenerEnd(rd.st, i, ReadError(rd.out))

\* Lines 248-249: the first step of the task.
ListenerStart(st, i) ==
    IF st.wk[Listener(i)] = "cancel" THEN ListenerEnd(st, i, "cancel")
    ELSE IF st.reader = 0 THEN ListenerEnd(st, i, "noreader")
    ELSE ListenerLoop(st, i)

\* The listener is resumed in wait_for(self._read_response(), timeout=0.1).
ListenerResume(st, i) ==
    LET t == Listener(i)
        s == st.rsock[t]
        st1 == EndRead(st, t)
    IN CASE st.wk[t] = "cancel" -> ListenerEnd(st1, i, "cancel")
         [] st.wk[t] = "timeout" ->
            ListenerLoop([st1 EXCEPT !.hist.ltimeout = i], i)
         [] OTHER ->
            LET rd == ReadWoken(st1, s)
            IN IF rd.out = "frame" /\ rd.f.k # "bad"
               THEN ListenerLoop(Deliver(NoteRead(rd.st, rd.f), rd.f), i)
               ELSE IF rd.out = "frame"
               THEN ListenerEnd(NoteRead(rd.st, rd.f), i, "bad")
               ELSE ListenerEnd(rd.st, i, ReadError(rd.out))

\* asyncio.create_task(self._broadcast_listener()), assigned to _broadcast_task.
SpawnListener(st) ==
    IF FreeListeners(st) = {} THEN Overflow(st)
    ELSE LET i == Lowest(FreeListeners(st))
         IN Enq([st EXCEPT !.btask = i, !.pc[Listener(i)] = "new"], Listener(i))

\* ---------------------------------------------------------------- connect
\* Lines 79-85: the connection is established.
ConnectSuccess(st) ==
    IF FreeSocks(st) = {} THEN Overflow(st)
    ELSE LET s == Lowest(FreeSocks(st))
         IN [st EXCEPT !.reader = s, !.writer = s, !.connected = TRUE,
                       !.attempts = 0,
                       !.sock[s] = [FreeSock EXCEPT !.st = "open", !.up = TRUE],
                       !.made = [j \in ReconnectSlots |-> 0],
                       !.hist.leak = st.writer # 0
                                     /\ st.sock[st.writer].st = "open"]

\* ---------------------------------------------------------------- reconnection
\* _handle_connection_lost that marks the Session not-connected and starts no
\* reconnection task.
HandleConnectionLostNoTask(st) ==
    IF ~st.connected THEN [st EXCEPT !.hist.op = "notlost"]
    ELSE [st EXCEPT !.connected = FALSE, !.hist.op = "lost"]

\* _handle_connection_lost without the test of line 299: a reconnection
\* task is created whether or not one is in progress.
HandleConnectionLostAlways(st) ==
    IF ~st.connected THEN [st EXCEPT !.hist.op = "notlost"]
    ELSE IF FreeReconnectors(st) = {} THEN Overflow(st)
    ELSE LET j == Lowest(FreeReconnectors(st))
         IN Enq([st EXCEPT !.connected = FALSE, !.hist.op = "lost",
                           !.rtask = j, !.pc[Reconnector(j)] = "new",
                           !.made[j] = 0, !.delay[j] = 0],
                Reconnector(j))

\* Lines 290-300.
HandleConnectionLost(st) ==
    IF ~st.connected THEN [st EXCEPT !.hist.op = "notlost"]
    ELSE LET st1 == [st EXCEPT !.connected = FALSE, !.hist.op = "lost",
                               !.made = [j \in ReconnectSlots |-> 0]]
         IN IF st.rtask = 0 \/ st.rtask = Finished
            THEN IF FreeReconnectors(st) = {} THEN Overflow(st)
                 ELSE LET j == Lowest(FreeReconnectors(st))
                      IN Enq([st1 EXCEPT !.rtask = j,
                                         !.pc[Reconnector(j)] = "new",
                                         !.made[j] = 0, !.delay[j] = 0],
                             Reconnector(j))
            ELSE st1

\* Lines 304-315 and 330: the top of the while loop.
ReconnectLoop(st, j) ==
    IF st.attempts < MAX_RECONNECT_ATTEMPTS
    THEN [st EXCEPT !.attempts = @ + 1,
                    !.pc[Reconnector(j)] = "sleep",
                    !.delay[j] = RECONNECT_DELAY_BASE * 2 ^ st.attempts,
                    !.hist.op = "sleep"]
    ELSE TaskDone([st EXCEPT !.hist.op = "gaveup", !.hist.made = st.made[j]],
                  Reconnector(j))

ReconnectStart(st, j) ==
    IF st.wk[Reconnector(j)] = "cancel" THEN TaskDone(st, Reconnector(j))
    ELSE ReconnectLoop(st, j)

\* Lines 320-325: connect() has returned.
ReconnectSucceeded(st, j) ==
    TaskDone([(IF st.callback THEN SpawnListener(st) ELSE st)
                 EXCEPT !.hist.op = "reconnected"], Reconnector(j))

\* Line 318 after the sleep: connect() returns at once when connected, else
\* it waits for open_connection.
ReconnectWake(st, j) ==
    IF st.wk[Reconnector(j)] = "cancel" THEN TaskDone(st, Reconnector(j))
    ELSE IF is_connected(st) THEN ReconnectSucceeded(st, j)
    ELSE [st EXCEPT !.pc[Reconnector(j)] = "conn",
                    !.made[j] = IF @ > MAX_RECONNECT_ATTEMPTS THEN @ ELSE @ + 1,
                    !.hist.op = "attempt"]

\* open_connection has ended: lines 84-85 and 320-325, or 327-328.
ReconnectConn(st, j) ==
    CASE st.wk[Reconnector(j)] = "cancel" -> TaskDone(st, Reconnector(j))
      [] st.wk[Reconnector(j)] = "ok" ->
            ReconnectSucceeded(
                ConnectSuccess([st EXCEPT !.wk[Reconnector(j)] = "none",
                                          !.hist.revived = (st.writer = 0)]), j)
      [] OTHER -> ReconnectLoop([st EXCEPT !.wk[Reconnector(j)] = "none"], j)

\* ---------------------------------------------------------------- API calls
ApiReturn(st, r) ==
    [st EXCEPT !.pc[Api] = "idle", !.wk[Api] = "none", !.aw = NoTask,
               !.hist.api = st.aop, !.hist.ares = r, !.aop = "none"]

ListenerLive(st) == st.btask \notin {0, Finished}
ReconnectLive(st) == st.rtask \notin {0, Finished}

\* Lines 235-239: cancel the listener and await it.
AwaitListener(st, at) ==
    [Cancel(st, Listener(st.btask)) EXCEPT
        !.aw = Listener(st.btask), !.pc[Api] = at]

\* Lines 241-242.
StopListenerEnd(st) == [st EXCEPT !.callback = FALSE, !.btask = 0]

\* connect() that resets the attempt counter also when it returns early.
ApiConnectResets(st) ==
    IF is_connected(st)
    THEN ApiReturn([st EXCEPT !.hist.noop = TRUE, !.attempts = 0], "ok")
    ELSE [st EXCEPT !.pc[Api] = "conn"]

\* connect(), lines 73-82.
ApiConnect(st) ==
    IF is_connected(st) THEN ApiReturn([st EXCEPT !.hist.noop = TRUE], "ok")
    ELSE [st EXCEPT !.pc[Api] = "conn"]

\* connect(), lines 84-92.
ApiConnectEnd(st) ==
    IF st.wk[Api] = "ok" THEN ApiReturn(ConnectSuccess(st), "ok")
    ELSE ApiReturn(st, "connection")

\* disconnect(), lines 117-119.
DisconnectEnd(st) ==
    ApiReturn([st EXCEPT !.reader = 0, !.writer = 0, !.connected = FALSE], "ok")

\* disconnect(), lines 110-115: close() schedules the transport's
\* connection_lost, which ends wait_closed().
DisconnectClose(st) ==
    IF st.writer # 0 /\ st.sock[st.writer].st = "open"
    THEN [st EXCEPT !.sock[st.writer].st = "closing",
                    !.aw = ConnLost(st.writer), !.pc[Api] = "d_close",
                    !.ready = Append(@, ConnLost(st.writer))]
    ELSE DisconnectEnd(st)

\* disconnect(), lines 102-107.
DisconnectReconnect(st) ==
    IF ReconnectLive(st)
    THEN [Cancel(st, Reconnector(st.rtask)) EXCEPT
             !.aw = Reconnector(st.rtask), !.pc[Api] = "d_reconnect"]
    ELSE DisconnectClose(st)

\* disconnect(), line 99.
ApiDisconnect(st) ==
    IF ListenerLive(st) THEN AwaitListener(st, "d_listener")
    ELSE DisconnectReconnect(StopListenerEnd(st))

\* start_broadcast_listener, lines 227-228.
StartListenerEnd(st) ==
    ApiReturn(SpawnListener([st EXCEPT !.callback = TRUE]), "ok")

\* start_broadcast_listener, lines 224-225.
ApiStartListener(st) ==
    IF ListenerLive(st) THEN AwaitListener(st, "s_listener")
    ELSE StartListenerEnd(st)

\* stop_broadcast_listener, lines 234-244.
ApiStopListener(st) ==
    IF ListenerLive(st) THEN AwaitListener(st, "t_listener")
    ELSE ApiReturn(StopListenerEnd(st), "ok")

\* The Api task starts the operation it was asked for.
ApiStart(st) ==
    CASE st.aop = "connect" -> ApiConnect(st)
      [] st.aop = "disconnect" -> ApiDisconnect(st)
      [] st.aop = "start" -> ApiStartListener(st)
      [] st.aop = "stop" -> ApiStopListener(st)

\* The Api task is resumed where it was waiting.
ApiResume(st) ==
    LET st1 == [st EXCEPT !.aw = NoTask]
    IN CASE st.pc[Api] = "conn" -> ApiConnectEnd(st1)
         [] st.pc[Api] = "d_listener" ->
                DisconnectReconnect(StopListenerEnd(st1))
         [] st.pc[Api] = "d_reconnect" -> DisconnectClose(st1)
         [] st.pc[Api] = "d_close" -> DisconnectEnd(st1)
         [] st.pc[Api] = "s_listener" -> StartListenerEnd(StopListenerEnd(st1))
         [] st.pc[Api] = "t_listener" -> ApiReturn(StopListenerEnd(st1), "ok")

\* StreamReaderProtocol.connection_lost after close(): end of stream for the
\* reader, and wait_closed() returns.
ConnectionLost(st, s) ==
    LET st1 == WakeWaiter([st EXCEPT !.sock[s].st = "closed",
                                     !.sock[s].eof = TRUE,
                                     !.sock[s].up = FALSE,
                                     !.sock[s].pend = {}], s)
    IN IF st.aw = ConnLost(s) THEN Enq(st1, Api) ELSE st1

\* ---------------------------------------------------------------- actions
\* The step to st, taken when st stays within the bounds of the model; st is
\* bound by a quantifier so that it is computed once per step.
Set(st) ==
    /\ \E n \in {Norm(s0) : s0 \in {s1 \in {st} : s1.ok}} :
       /\ connected' = n.connected
       /\ reader' = n.reader
       /\ writer' = n.writer
       /\ callback' = n.callback
       /\ btask' = n.btask
       /\ rtask' = n.rtask
       /\ attempts' = n.attempts
       /\ lock' = n.lock
       /\ lockq' = n.lockq
       /\ pc' = n.pc
       /\ wk' = n.wk
       /\ rsock' = n.rsock
       /\ aop' = n.aop
       /\ aw' = n.aw
       /\ ready' = n.ready
       /\ sock' = n.sock
       /\ made' = n.made
       /\ delay' = n.delay
       /\ hist' = n.hist
       /\ UNCHANGED <<pin, pout>>

\* The task at the head of the ready queue runs.
Running(t) == ready # <<>> /\ Head(ready) = t
Popped == [Cur EXCEPT !.ready = Tail(@)]

\* Something from outside the event loop happens only while fewer than
\* MaxReady tasks are waiting to run.
Quiet == Len(ready) < MaxReady

\* Some task of the application calls send_command.
Call(c) ==
    /\ Quiet
    /\ pc[Caller(c)] = "idle"
    /\ Set(Enq([Cur EXCEPT !.pc[Caller(c)] = "call"], Caller(c)))

\* The application calls connect, disconnect, start_broadcast_listener or
\* stop_broadcast_listener.
ApiCall(op) ==
    /\ Quiet
    /\ pc[Api] = "idle"
    /\ Set(Enq([Cur EXCEPT !.pc[Api] = "call", !.aop = op], Api))

CallerStart(c) ==
    /\ Running(Caller(c))
    /\ pc[Caller(c)] = "call"
    /\ \E wfail \in BOOLEAN :
          /\ wfail => lock = 0 /\ is_connected(Cur) /\ ~sock[writer].up
          /\ Set(SendCommand(Popped, c, wfail))

CallerLocked(c) ==
    /\ Running(Caller(c))
    /\ pc[Caller(c)] = "lock"
    /\ \E wfail \in BOOLEAN :
          /\ wfail => /\ is_connected(Cur) /\ ~sock[writer].up
                      /\ wk[Caller(c)] # "cancel"
          /\ Set(LockResume(Popped, c, wfail))

CallerResume(c) ==
    /\ Running(Caller(c))
    /\ pc[Caller(c)] = "reply"
    /\ Set(SendResume(Popped, c))

ListenerFirst(i) ==
    /\ Running(Listener(i))
    /\ pc[Listener(i)] = "new"
    /\ Set(ListenerStart(Popped, i))

ListenerNext(i) ==
    /\ Running(Listener(i))
    /\ pc[Listener(i)] = "poll"
    /\ Set(ListenerResume(Popped, i))

HandlerRun ==
    /\ Running(Handler)
    /\ Set(HandleConnectionLost(Popped))

ReconnectFirst(j) ==
    /\ Running(Reconnector(j))
    /\ pc[Reconnector(j)] = "new"
    /\ Set(ReconnectStart(Popped, j))

ReconnectAfterSleep(j) ==
    /\ Running(Reconnector(j))
    /\ pc[Reconnector(j)] = "sleep"
    /\ Set(ReconnectWake(Popped, j))

ReconnectAfterConnect(j) ==
    /\ Running(Reconnector(j))
    /\ pc[Reconnector(j)] = "conn"
    /\ Set(ReconnectConn(Popped, j))

ApiFirst ==
    /\ Running(Api)
    /\ pc[Api] = "call"
    /\ Set(ApiStart(Popped))

ApiNext ==
    /\ Running(Api)
    /\ pc[Api] \notin {"idle", "call"}
    /\ Set(ApiResume(Popped))

ConnLostRun(s) ==
    /\ Running(ConnLost(s))
    /\ Set(ConnectionLost(Popped, s))

\* The device answers a command it has received.
DeviceReply(s, c) ==
    /\ Quiet
    /\ sock[s].st = "open" /\ sock[s].up
    /\ c \in sock[s].pend
    /\ Len(sock[s].buf) < MaxBuf
    /\ Set(WakeWaiter([Cur EXCEPT !.sock[s].buf = Append(@, ReplyTo(c)),
                                  !.sock[s].pend = @ \ {c}], s))

\* The device sends a broadcast frame, well-formed or not.
DeviceBroadcast(s, f) ==
    /\ Quiet
    /\ sock[s].st = "open" /\ sock[s].up
    /\ Len(sock[s].buf) < MaxBuf
    /\ Set(WakeWaiter([Cur EXCEPT !.sock[s].buf = Append(@, f)], s))

\* The device closes the connection: end of stream.
PeerClose(s) ==
    /\ Quiet
    /\ sock[s].st = "open" /\ sock[s].up
    /\ Set(WakeWaiter([Cur EXCEPT !.sock[s].up = FALSE, !.sock[s].eof = TRUE,
                                  !.sock[s].pend = {}], s))

\* The connection breaks (reset by the peer, network error): the transport
\* is closed with the error, which every later read raises.
PeerReset(s) ==
    /\ Quiet
    /\ sock[s].st = "open"
    /\ Set(WakeWaiter([Cur EXCEPT !.sock[s].st = "closed", !.sock[s].exc = TRUE,
                                  !.sock[s].up = FALSE, !.sock[s].buf = <<>>,
                                  !.sock[s].pend = {}], s))

\* No complete reply within self._timeout.
CommandTimeout(c) ==
    /\ Quiet
    /\ pc[Caller(c)] = "reply"
    /\ Suspended(Cur, Caller(c))
    /\ Set(Enq([Cur EXCEPT !.wk[Caller(c)] = "timeout"], Caller(c)))

\* Nothing to read within the listener's 0.1 s.
PollTimeout(i) ==
    /\ Quiet
    /\ pc[Listener(i)] = "poll"
    /\ Suspended(Cur, Listener(i))
    /\ Set(Enq([Cur EXCEPT !.wk[Listener(i)] = "timeout"], Listener(i)))

\* asyncio.sleep(delay) is over.
SleepDone(j) ==
    /\ Quiet
    /\ pc[Reconnector(j)] = "sleep"
    /\ Suspended(Cur, Reconnector(j))
    /\ Set(Enq(Cur, Reconnector(j)))

\* open_connection ends: established, or refused or timed out.  A connection
\* is established while the model has a socket left for it.
ConnectOutcome(t, r) ==
    /\ Quiet
    /\ pc[t] = "conn"
    /\ Suspended(Cur, t)
    /\ r = "ok" => FreeSocks(Cur) # {}
    /\ Set(Enq([Cur EXCEPT !.wk[t] = r], t))

Next ==
    \/ \E c \in Callers : Call(c)
    \/ \E op \in {"connect", "disconnect", "start", "stop"} : ApiCall(op)
    \/ \E c \in Callers : CallerStart(c)
    \/ \E c \in Callers : CallerLocked(c)
    \/ \E c \in Callers : CallerResume(c)
    \/ \E i \in ListenerSlots : ListenerFirst(i)
    \/ \E i \in ListenerSlots : ListenerNext(i)
    \/ HandlerRun
    \/ \E j \in ReconnectSlots : ReconnectFirst(j)
    \/ \E j \in ReconnectSlots : ReconnectAfterSleep(j)
    \/ \E j \in ReconnectSlots : ReconnectAfterConnect(j)
    \/ ApiFirst
    \/ ApiNext
    \/ \E s \in Socks : ConnLostRun(s)
    \/ \E s \in Socks, c \in Callers : DeviceReply(s, c)
    \/ \E s \in Socks, f \in {Bcast, [k |-> "bad", c |-> 0]} : DeviceBroadcast(s, f)
    \/ \E s \in Socks : PeerClose(s)
    \/ \E s \in Socks : PeerReset(s)
    \/ \E c \in Callers : CommandTimeout(c)
    \/ \E i \in ListenerSlots : PollTimeout(i)
    \/ \E j \in ReconnectSlots : SleepDone(j)
    \/ \E t \in ReconnectTasks \cup {Api}, r \in {"ok", "fail"} : ConnectOutcome(t, r)

Spec == Init /\ [][Next]_vars

\* ---------------------------------------------------------------- frames
\* The bytes of a reply as the StreamReader hands them out, and what
\* send_command makes of them.  Sequences are indexed from 1: data[0] of the
\* code is data[1] here.

Take(s, n) == SubSeq(s, 1, IF n < Len(s) THEN n ELSE Len(s))
Drop(s, n) == SubSeq(s, (IF n < Len(s) THEN n ELSE Len(s)) + 1, Len(s))

WireBytes == (0..MaxByte) \cup {END_BYTE, START_BYTE}

\* The device's bytes, the first `split` of them in the reader's buffer when
\* the read starts and the others arriving together later; after them the
\* device closes the connection (eof) or stays silent.
ReplyInput(in) ==
    \E n \in 0..MaxStream : \E s \in [1..n -> WireBytes] :
    \E k \in (IF s = <<>> THEN {0} ELSE 1..Len(s)), c \in 0..MaxByte,
       e \in BOOLEAN :
        in = [fn |-> "reply", code |-> c, stream |-> s, split |-> k, eof |-> e]

\* StreamReader.read(n): bytes of the buffer if there are any, else it waits
\* once, for the next bytes or the end of the stream; at most n bytes are
\* returned, b"" at the end of the stream.
StreamRead(w, n) ==
    IF w.buf # <<>>
    THEN [out |-> "data", data |-> Take(w.buf, n),
          w |-> [w EXCEPT !.buf = Drop(@, n)]]
    ELSE IF w.next # <<>>
    THEN [out |-> "data", data |-> Take(w.next, n),
          w |-> [w EXCEPT !.buf = Drop(w.next, n), !.next = <<>>]]
    ELSE IF w.eof THEN [out |-> "data", data |-> <<>>, w |-> w]
    ELSE [out |-> "timeout", data |-> <<>>, w |-> w]

\* _read_response, lines 197-208 (remaining is never 0, so the else branch
\* of line 209 is dead), under the wait_for of its caller.
ReadResponse(w) ==
    LET h == StreamRead(w, 5)
    IN IF h.out = "timeout" THEN [out |-> "timeout", data |-> <<>>]
       ELSE IF Len(h.data) < 5 THEN [out |-> "protocol", data |-> h.data]
       ELSE LET data_length == h.data[5]
                remaining == data_length + 1
                b == StreamRead(h.w, remaining)
            IN IF b.out = "timeout"
               THEN [out |-> "timeout", data |-> h.data]
               ELSE IF Len(b.data) < remaining
               THEN [out |-> "protocol", data |-> h.data \o b.data]
               ELSE [out |-> "frame", data |-> h.data \o b.data]

\* decode_response that takes the payload up to the first END byte.
DecodeResponseToEnd(data) ==
    IF Len(data) < 6 \/ data[1] # START_BYTE \/ data[Len(data)] # END_BYTE
    THEN [k |-> "raise", e |-> "ArcamProtocolError"]
    ELSE LET ends == {i \in 6..Len(data) : data[i] = END_BYTE}
             first == CHOOSE i \in ends : \A j \in ends : i <= j
         IN [k |-> "response", zone |-> data[2], command_code |-> data[3],
             answer_code |-> data[4], data |-> SubSeq(data, 6, first - 1)]

\* decode_response without the test of the declared length.
DecodeResponseNoLength(data) ==
    IF Len(data) < 6 \/ data[1] # START_BYTE \/ data[Len(data)] # END_BYTE
    THEN [k |-> "raise", e |-> "ArcamProtocolError"]
    ELSE [k |-> "response", zone |-> data[2], command_code |-> data[3],
          answer_code |-> data[4], data |-> SubSeq(data, 6, Len(data) - 1)]

\* decode_response without the test of the END byte.
DecodeResponseNoEnd(data) ==
    IF Len(data) < 6 \/ data[1] # START_BYTE \/ Len(data) # 6 + data[5]
    THEN [k |-> "raise", e |-> "ArcamProtocolError"]
    ELSE [k |-> "response", zone |-> data[2], command_code |-> data[3],
          answer_code |-> data[4], data |-> SubSeq(data, 6, 5 + data[5])]

\* ArcamProtocol.decode_response, protocol.py lines 111-138.
DecodeResponse(data) ==
    IF Len(data) < 6 THEN [k |-> "raise", e |-> "ArcamProtocolError"]
    ELSE IF data[1] # START_BYTE THEN [k |-> "raise", e |-> "ArcamProtocolError"]
    ELSE IF data[Len(data)] # END_BYTE
    THEN [k |-> "raise", e |-> "ArcamProtocolError"]
    ELSE LET data_length == data[5]
             expected_length == 6 + data_length
         IN IF Len(data) # expected_length
            THEN [k |-> "raise", e |-> "ArcamProtocolError"]
            ELSE [k |-> "response", zone |-> data[2], command_code |-> data[3],
                  answer_code |-> data[4],
                  data |-> SubSeq(data, 6, 5 + data_length)]

\* validate_response that accepts every response.
ValidateResponseAlways(response, expected_command) == TRUE

\* ArcamProtocol.validate_response, protocol.py lines 156-164.
ValidateResponse(response, expected_command) ==
    response.command_code = expected_command

\* send_command from its read on, lines 156-188: what the caller gets (a
\* Response, or an exception), whether the response passed validate_response,
\* whether _handle_connection_lost was scheduled, and the bytes the reads
\* returned.
SendReply(code, w) ==
    LET rd == ReadResponse(w)
    IN CASE rd.out = "timeout" ->
              [k |-> "raise", e |-> "ArcamTimeoutError", lost |-> TRUE,
               got |-> rd.data]
         [] rd.out = "protocol" ->
              [k |-> "raise", e |-> "ArcamProtocolError", lost |-> FALSE,
               got |-> rd.data]
         [] OTHER ->
              LET r == DecodeResponse(rd.data)
              IN IF r.k = "raise"
                 THEN [k |-> "raise", e |-> r.e, lost |-> FALSE,
                       got |-> rd.data]
                 ELSE [k |-> "return", response |-> r,
                       valid |-> ValidateResponse(r, code), lost |-> FALSE,
                       got |-> rd.data]

\* The session's variables, which the functions applied on their own leave
\* alone.
session == <<connected, reader, writer, callback, btask, rtask, attempts, lock,
             lockq, pc, wk, rsock, aop, aw, ready, sock, made, delay, hist>>

\* A command was written and its reply is read and decoded.
ReplyRead ==
    /\ pin.fn = "reply"
    /\ pout = NoOutput
    /\ pout' = SendReply(pin.code,
                          [buf |-> Take(pin.stream, pin.split),
                           next |-> Drop(pin.stream, pin.split),
                           eof |-> pin.eof])
    /\ UNCHANGED <<session, pin>>

\* ---------------------------------------------------------------- device info
\* How send_command ends for get_device_info: with a Response, or with one of
\* the exceptions of Finish, or cancelled with its task.
CommandResults ==
    {"ok", "notconnected", "timeout", "connection", "protocol", "runtime",
     "cancelled"}

\* A payload of `text` letters followed by `pad` null bytes; with `bad` its
\* first byte is not ASCII.
InfoInput(in) ==
    \/ \E text \in 0..MaxPayload : \E pad \in 0..(MaxPayload - text) :
       \E bad, conn \in BOOLEAN :
       \E a \in {ANSWER_OK, ANSWER_COMMAND_NOT_RECOGNIZED} :
          in = [fn |-> "info", res |-> "ok", answer_code |-> a,
                data |-> [i \in 1..(text + pad) |->
                            IF i > text THEN 0
                            ELSE IF bad /\ i = 1 THEN 200 ELSE 65],
                connected |-> conn]
    \/ \E r \in CommandResults \ {"ok"} : \E conn \in BOOLEAN :
          in = [fn |-> "info", res |-> r, answer_code |-> ANSWER_OK,
                data |-> <<>>, connected |-> conn]

\* "Unknown" in ASCII.
Unknown == <<85, 110, 107, 110, 111, 119, 110>>

\* str.rstrip('\x00').
RECURSIVE RStripNull(_)
RStripNull(s) ==
    IF s # <<>> /\ s[Len(s)] = 0 THEN RStripNull(SubSeq(s, 1, Len(s) - 1))
    ELSE s

\* decode_version_response without the test of the length.
DecodeVersionAnyLength(data) ==
    IF \E i \in DOMAIN data : data[i] > 127
    THEN [none |-> TRUE, text |-> <<>>]
    ELSE [none |-> FALSE, text |-> RStripNull(data)]

\* decode_version_response, commands.py lines 284-296; None is [none |-> TRUE].
DecodeVersionResponse(data) ==
    IF Len(data) # VERSION_LENGTH THEN [none |-> TRUE, text |-> <<>>]
    ELSE IF \E i \in DOMAIN data : data[i] > 127
    THEN [none |-> TRUE, text |-> <<>>]
    ELSE [none |-> FALSE, text |-> RStripNull(data)]

\* ArcamResponse.is_success, protocol.py lines 52-55.
is_success(response) == response.answer_code = ANSWER_OK

\* get_device_info without its except clause.
GetDeviceInfoUncaught(in) ==
    IF in.res # "ok" THEN [k |-> "raise", e |-> in.res]
    ELSE LET version == IF is_success(in) THEN DecodeVersionResponse(in.data)
                        ELSE [none |-> TRUE, text |-> <<>>]
         IN [k |-> "dict",
             version |-> IF version.none \/ version.text = <<>>
                         THEN Unknown ELSE version.text,
             connected |-> in.connected, error |-> FALSE]

\* get_device_info, lines 341-364: `except Exception` catches every exception
\* of send_command; the CancelledError of a cancelled task is no Exception.
GetDeviceInfo(in) ==
    IF in.res = "cancelled" THEN [k |-> "raise", e |-> "cancelled"]
    ELSE IF in.res # "ok"
    THEN [k |-> "dict", version |-> Unknown, connected |-> in.connected,
          error |-> TRUE]
    ELSE LET version == IF is_success(in) THEN DecodeVersionResponse(in.data)
                        ELSE [none |-> TRUE, text |-> <<>>]
         IN [k |-> "dict",
             version |-> IF version.none \/ version.text = <<>>
                         THEN Unknown ELSE version.text,
             connected |-> in.connected, error |-> FALSE]

\* get_device_info is called and its send_command ends.
InfoRead ==
    /\ pin.fn = "info"
    /\ pout = NoOutput
    /\ pout' = GetDeviceInfo(pin)
    /\ UNCHANGED <<session, pin>>

\* ---------------------------------------------------------------- commands
\* The result r of the function `by`.
Out(by, r) == [k |-> r.k, by |-> by, r |-> r]

\* Arguments of ArcamCommand(zone, command_code, data): zones and codes inside
\* and just outside their ranges, payloads of up to MaxData wire bytes and of
\* 255 and 256 bytes.
ZoneInputs == 0..3
CommandInput(in) ==
    \E z \in ZoneInputs,
       c \in {-1, 0, 1, END_BYTE, START_BYTE, BYTE_MAX, BYTE_MAX + 1} :
       \/ \E n \in 0..MaxData : \E d \in [1..n -> WireBytes] :
             in = [fn |-> "command", zone |-> z, command_code |-> c, data |-> d]
       \/ \E n \in {BYTE_MAX, BYTE_MAX + 1} :
             in = [fn |-> "command", zone |-> z, command_code |-> c,
                   data |-> [i \in 1..n |-> END_BYTE]]

\* Any bytes handed to decode_response.
BytesInput(in) ==
    \E n \in 0..MaxStream : \E d \in [1..n -> WireBytes] :
        in = [fn |-> "bytes", data |-> d]

\* ArcamCommand that brings zone and code into range instead of raising.
ArcamCommandClamps(zone, command_code, data) ==
    IF Len(data) > BYTE_MAX
    THEN [k |-> "raise", e |-> "ArcamProtocolError"]
    ELSE [k |-> "command",
          zone |-> IF zone < 1 THEN 1 ELSE IF zone > 2 THEN 2 ELSE zone,
          command_code |-> command_code % (BYTE_MAX + 1), data |-> data]

\* ArcamCommand(...): the dataclass and its __post_init__, protocol.py
\* lines 25-40.
ArcamCommand(zone, command_code, data) ==
    IF ~(1 <= zone /\ zone <= 2)
    THEN [k |-> "raise", e |-> "ArcamProtocolError"]
    ELSE IF ~(0 <= command_code /\ command_code <= BYTE_MAX)
    THEN [k |-> "raise", e |-> "ArcamProtocolError"]
    ELSE IF Len(data) > BYTE_MAX
    THEN [k |-> "raise", e |-> "ArcamProtocolError"]
    ELSE [k |-> "command", zone |-> zone, command_code |-> command_code,
          data |-> data]

\* encode_command whose length byte counts the END byte too.
EncodeCommandCountsEnd(command) ==
    <<START_BYTE, command.zone, command.command_code, Len(command.data) + 1>>
        \o command.data \o <<END_BYTE>>

\* ArcamProtocol.encode_command, protocol.py lines 73-104.
EncodeCommand(command) ==
    LET data_length == Len(command.data)
        command_bytes == <<START_BYTE, command.zone, command.command_code,
                           data_length>>
    IN (IF command.data # <<>> THEN command_bytes \o command.data
        ELSE command_bytes) \o <<END_BYTE>>

\* ArcamCommand(zone, command_code, data) is evaluated.
CommandMade ==
    /\ pin.fn = "command"
    /\ pout = NoOutput
    /\ pout' = Out("ArcamCommand",
                   ArcamCommand(pin.zone, pin.command_code, pin.data))
    /\ UNCHANGED <<session, pin>>

\* The Command, once constructed, is encoded.
CommandEncoded ==
    /\ pin.fn = "command"
    /\ pout = NoOutput
    /\ LET command == ArcamCommand(pin.zone, pin.command_code, pin.data)
       IN /\ command.k = "command"
          /\ pout' = Out("encode_command",
                         [k |-> "bytes", data |-> EncodeCommand(command)])
    /\ UNCHANGED <<session, pin>>

\* The Command is encoded, a status byte is put after the operation code of
\* the frame, and the frame is decoded as a response.
RoundTrip ==
    /\ pin.fn = "command"
    /\ pout = NoOutput
    /\ LET command == ArcamCommand(pin.zone, pin.command_code, pin.data)
       IN /\ command.k = "command"
          /\ \E a \in {ANSWER_OK, ANSWER_COMMAND_NOT_RECOGNIZED} :
               LET b == EncodeCommand(command)
                   shaped == SubSeq(b, 1, 3) \o <<a>> \o SubSeq(b, 4, Len(b))
               IN pout' = Out("round_trip", DecodeResponse(shaped))
    /\ UNCHANGED <<session, pin>>

\* decode_response is applied to the bytes.
ResponseDecoded ==
    /\ pin.fn = "bytes"
    /\ pout = NoOutput
    /\ pout' = Out("decode_response", DecodeResponse(pin.data))
    /\ UNCHANGED <<session, pin>>

\* ---------------------------------------------------------------- builders
\* Text is a sequence of character codes: "CD" is <<67, 68>>.
\* RC5_SOURCES, commands.py lines 20-36.
RC5_SOURCES ==
    (<<67, 68>> :> <<16, 118>>) @@          \* CD
    (<<66, 68>> :> <<16, 98>>) @@           \* BD
    (<<65, 86>> :> <<16, 94>>) @@           \* AV
    (<<83, 84, 66>> :> <<16, 100>>) @@      \* STB
    (<<83, 65, 84>> :> <<16, 27>>) @@       \* SAT
    (<<80, 86, 82>> :> <<16, 96>>) @@       \* PVR
    (<<86, 67, 82>> :> <<16, 99>>) @@       \* VCR
    (<<65, 85, 88>> :> <<16, 99>>) @@       \* AUX
    (<<71, 65, 77, 69>> :> <<16, 97>>) @@   \* GAME
    (<<78, 69, 84>> :> <<16, 92>>) @@       \* NET
    (<<70, 77>> :> <<16, 28>>) @@           \* FM
    (<<68, 65, 66>> :> <<16, 72>>) @@       \* DAB
    (<<66, 84>> :> <<16, 122>>) @@          \* BT
    (<<85, 83, 66>> :> <<16, 123>>) @@      \* USB
    (<<85, 72, 68>> :> <<16, 125>>)         \* UHD

\* RC5_MUTE, commands.py line 39.
RC5_MUTE == <<16, 13>>

ValueError == [k |-> "raise", e |-> "ValueError"]

power_on(zone) ==
    IF ~(1 <= zone /\ zone <= 2) THEN ValueError
    ELSE ArcamCommand(zone, POWER, <<1>>)

power_off(zone) ==
    IF ~(1 <= zone /\ zone <= 2) THEN ValueError
    ELSE ArcamCommand(zone, POWER, <<0>>)

get_power_status(zone) ==
    IF ~(1 <= zone /\ zone <= 2) THEN ValueError
    ELSE ArcamCommand(zone, POWER, <<STATUS_REQUEST>>)

set_volume(volume, zone) ==
    IF ~(1 <= zone /\ zone <= 2) THEN ValueError
    ELSE IF ~(0 <= volume /\ volume <= MAX_VOLUME) THEN ValueError
    ELSE ArcamCommand(zone, VOLUME, <<volume>>)

get_volume(zone) ==
    IF ~(1 <= zone /\ zone <= 2) THEN ValueError
    ELSE ArcamCommand(zone, VOLUME, <<STATUS_REQUEST>>)

get_mute_status(zone) ==
    IF ~(1 <= zone /\ zone <= 2) THEN ValueError
    ELSE ArcamCommand(zone, MUTE, <<STATUS_REQUEST>>)

toggle_mute(zone) ==
    IF ~(1 <= zone /\ zone <= 2) THEN ValueError
    ELSE ArcamCommand(zone, RC5_SIMULATE, RC5_MUTE)

\* get_source without the test of the zone.
get_source_any_zone(zone) == ArcamCommand(zone, SOURCE, <<STATUS_REQUEST>>)

get_source(zone) ==
    IF ~(1 <= zone /\ zone <= 2) THEN ValueError
    ELSE ArcamCommand(zone, SOURCE, <<STATUS_REQUEST>>)

\* select_source that looks the name up as it is spelled.
select_source_exact(source, zone) ==
    IF ~(1 <= zone /\ zone <= 2) THEN ValueError
    ELSE IF source \notin DOMAIN RC5_SOURCES THEN ValueError
    ELSE ArcamCommand(zone, RC5_SIMULATE, RC5_SOURCES[source])

select_source(source, zone) ==
    IF ~(1 <= zone /\ zone <= 2) THEN ValueError
    ELSE LET source_upper == [i \in 1..Len(source) |->
                                IF 97 <= source[i] /\ source[i] <= 122
                                THEN source[i] - 32 ELSE source[i]]
         IN IF source_upper \notin DOMAIN RC5_SOURCES THEN ValueError
            ELSE LET rc5_data == RC5_SOURCES[source_upper]
                 IN ArcamCommand(zone, RC5_SIMULATE, rc5_data)

get_software_version(zone) ==
    IF ~(1 <= zone /\ zone <= 2) THEN ValueError
    ELSE ArcamCommand(zone, SOFTWARE_VERSION, <<STATUS_REQUEST>>)

simulate_rc5(rc5_data1, rc5_data2, zone) ==
    IF ~(1 <= zone /\ zone <= 2) THEN ValueError
    ELSE IF ~(0 <= rc5_data1 /\ rc5_data1 <= BYTE_MAX) THEN ValueError
    ELSE IF ~(0 <= rc5_data2 /\ rc5_data2 <= BYTE_MAX) THEN ValueError
    ELSE ArcamCommand(zone, RC5_SIMULATE, <<rc5_data1, rc5_data2>>)

\* Volumes and RC5 bytes inside and just outside their ranges.
VolumeInputs == {-1, 0, 50, MAX_VOLUME, MAX_VOLUME + 1, BYTE_MAX, BYTE_MAX + 1}
Rc5Inputs == {-1, 0, 16, BYTE_MAX, BYTE_MAX + 1}

\* A call of a builder: its name and its arguments (a, b and source are those
\* the builder takes, 0 and "" otherwise).
BuilderCall(name, zone, a, b, source) ==
    [fn |-> "builder", name |-> name, zone |-> zone, a |-> a, b |-> b,
     source |-> source]

BuilderInput(in) ==
    \E z \in ZoneInputs :
       \/ \E name \in {"power_on", "power_off", "get_power_status",
                        "get_volume", "get_mute_status", "toggle_mute",
                        "get_source", "get_software_version"} :
             in = BuilderCall(name, z, 0, 0, <<>>)
       \/ \E v \in VolumeInputs : in = BuilderCall("set_volume", z, v, 0, <<>>)
       \/ \E d1 \in Rc5Inputs, d2 \in Rc5Inputs :
             in = BuilderCall("simulate_rc5", z, d1, d2, <<>>)
       \* Every upper/lower-case spelling of the names of the table.
       \/ \E name \in DOMAIN RC5_SOURCES :
          \E lower \in [1..Len(name) -> {0, 1}] :
             in = BuilderCall("select_source", z, 0, 0,
                              [i \in 1..Len(name) |-> name[i] + 32 * lower[i]])
       \* Texts that are no spelling of a name of the table: "", "C", "CD ",
       \* "TV", "cdx", "C@" and "[D".
       \/ \E s \in {<<>>, <<67>>, <<67, 68, 32>>, <<84, 86>>, <<99, 100, 120>>,
                     <<67, 64>>, <<91, 68>>} :
             in = BuilderCall("select_source", z, 0, 0, s)

\* ArcamCommands.<name>(...), commands.py lines 70-228.
ArcamCommands(in) ==
    CASE in.name = "power_on" -> power_on(in.zone)
      [] in.name = "power_off" -> power_off(in.zone)
      [] in.name = "get_power_status" -> get_power_status(in.zone)
      [] in.name = "set_volume" -> set_volume(in.a, in.zone)
      [] in.name = "get_volume" -> get_volume(in.zone)
      [] in.name = "get_mute_status" -> get_mute_status(in.zone)
      [] in.name = "toggle_mute" -> toggle_mute(in.zone)
      [] in.name = "get_source" -> get_source(in.zone)
      [] in.name = "select_source" -> select_source(in.source, in.zone)
      [] in.name = "get_software_version" -> get_software_version(in.zone)
      [] in.name = "simulate_rc5" -> simulate_rc5(in.a, in.b, in.zone)

\* The builder is called.
BuilderCalled ==
    /\ pin.fn = "builder"
    /\ pout = NoOutput
    /\ pout' = Out(pin.name, ArcamCommands(pin))
    /\ UNCHANGED <<session, pin>>

\* -------------------------------------------------------- payload decoders
\* SOURCE_CODES, commands.py lines 42-58: codes 0x00..0x0E to CD, BD, AV, STB,
\* SAT, PVR, VCR, AUX, GAME, NET, FM, DAB, BT, USB, UHD.
SOURCE_CODES ==
    LET names == << <<67, 68>>, <<66, 68>>, <<65, 86>>, <<83, 84, 66>>,
                    <<83, 65, 84>>, <<80, 86, 82>>, <<86, 67, 82>>,
                    <<65, 85, 88>>, <<71, 65, 77, 69>>, <<78, 69, 84>>,
                    <<70, 77>>, <<68, 65, 66>>, <<66, 84>>, <<85, 83, 66>>,
                    <<85, 72, 68>> >>
    IN [source_code \in 0..(Len(names) - 1) |-> names[source_code + 1]]

\* A decoder returns None or a value.
None == [k |-> "None"]
Value(v) == [k |-> "value", v |-> v]

get_source_name(source_code) ==
    IF source_code \in DOMAIN SOURCE_CODES THEN Value(SOURCE_CODES[source_code])
    ELSE None

decode_volume_response(data) ==
    IF Len(data) # 1 THEN None ELSE Value(data[1])

decode_power_response(data) ==
    IF Len(data) # 1 THEN None ELSE Value(data[1] = 1)

decode_mute_response(data) ==
    IF Len(data) # 1 THEN None ELSE Value(data[1] = 1)

\* decode_source_response without the test of the length.
decode_source_unchecked(data) ==
    IF data = <<>> THEN [k |-> "raise", e |-> "IndexError"]
    ELSE get_source_name(data[1])

decode_source_response(data) ==
    IF Len(data) # 1 THEN None
    ELSE LET source_code == data[1] IN get_source_name(source_code)

PayloadInput(in) ==
    \* Payload bytes: zero, one, other nonzero values, the last code of the
    \* source table, the first code after it, the last byte value.
    \E f \in {"decode_volume_response", "decode_power_response",
              "decode_mute_response", "decode_source_response"} :
    \E n \in 0..MaxData : \E d \in [1..n -> {0, 1, 2, 14, 15, 100, BYTE_MAX}] :
        in = [fn |-> "payload", decoder |-> f, data |-> d]

\* The decoder is applied to the payload.
PayloadDecoded ==
    /\ pin.fn = "payload"
    /\ pout = NoOutput
    /\ pout' = Out(pin.decoder,
                   CASE pin.decoder = "decode_volume_response" ->
                          decode_volume_response(pin.data)
                     [] pin.decoder = "decode_power_response" ->
                          decode_power_response(pin.data)
                     [] pin.decoder = "decode_mute_response" ->
                          decode_mute_response(pin.data)
                     [] pin.decoder = "decode_source_response" ->
                          decode_source_response(pin.data))
    /\ UNCHANGED <<session, pin>>

\* ---------------------------------------------------------- version payload
\* Payloads of 0..MaxPayload bytes made of three runs of equal bytes.
VersionInput(in) ==
    \E n \in 0..MaxPayload : \E q \in 0..n : \E p \in 0..q :
    \* Bytes: null, a letter, the last ASCII code, the first code that is not
    \* ASCII.
    \E b1, b2, b3 \in {0, 65, 127, 128} :
        in = [fn |-> "version",
              data |-> [i \in 1..n |->
                          IF i <= p THEN b1 ELSE IF i <= q THEN b2 ELSE b3]]

\* decode_version_response is applied to the payload.
VersionDecoded ==
    /\ pin.fn = "version"
    /\ pout = NoOutput
    /\ LET version == DecodeVersionResponse(pin.data)
       IN pout' = Out("decode_version_response",
                      IF version.none THEN None ELSE Value(version.text))
    /\ UNCHANGED <<session, pin>>

\* ------------------------------------------------------------- coordinator
\* async_send_command(command_func, *args, immediate_refresh): the call, the
\* way the Session's send_command ends if it is called, the answer code of
\* its Response, and whether async_request_refresh raises.
CoordinatorInput(in) ==
    \E z \in ZoneInputs :
    \E call \in
       {BuilderCall(name, z, 0, 0, <<>>) : name \in {"power_on", "toggle_mute"}}
       \cup {BuilderCall("set_volume", z, v, 0, <<>>) : v \in VolumeInputs}
       \cup {BuilderCall("simulate_rc5", z, 16, d2, <<>>) : d2 \in Rc5Inputs}
       \cup {BuilderCall("select_source", z, 0, 0, s) :
                s \in {<<99, 100>>, <<67, 68>>, <<84, 86>>}} :
       \/ \E a \in {ANSWER_OK, ANSWER_COMMAND_NOT_RECOGNIZED} :
          \E imm, rf \in BOOLEAN :
             in = [fn |-> "coordinator", call |-> call, res |-> "ok",
                   answer_code |-> a, immediate_refresh |-> imm,
                   refresh_raises |-> rf]
       \/ \E r \in CommandResults \ {"ok"} :
             in = [fn |-> "coordinator", call |-> call, res |-> r,
                   answer_code |-> ANSWER_OK, immediate_refresh |-> TRUE,
                   refresh_raises |-> FALSE]

\* What a call of async_send_command did: it returned `value` or raised `e`;
\* `sent` when send_command was called, `refreshed` when
\* async_request_refresh was called, `fast` when _enable_fast_updates ran.
Returned(value, sent, refreshed, fast) ==
    [k |-> "return", value |-> value, e |-> "none", sent |-> sent,
     refreshed |-> refreshed, fast |-> fast]
Raised(e, sent) ==
    [k |-> "raise", value |-> FALSE, e |-> e, sent |-> sent,
     refreshed |-> FALSE, fast |-> FALSE]

\* async_send_command that sends the command for zone 1 when the builder
\* refuses the zone.
AsyncSendCommandAnyZone(in) ==
    LET command == ArcamCommands([in.call EXCEPT !.zone = 1])
    IN IF command.k = "raise" THEN Returned(FALSE, FALSE, FALSE, FALSE)
       ELSE IF in.res = "cancelled" THEN Raised("cancelled", TRUE)
       ELSE IF in.res # "ok" THEN Returned(FALSE, TRUE, FALSE, FALSE)
       ELSE IF ~is_success(in) THEN Returned(FALSE, TRUE, FALSE, FALSE)
       ELSE IF in.immediate_refresh /\ in.refresh_raises
       THEN Returned(FALSE, TRUE, TRUE, FALSE)
       ELSE Returned(TRUE, TRUE, in.immediate_refresh, TRUE)

\* async_send_command without its `except Exception` clause.
AsyncSendCommandUncaught(in) ==
    LET command == ArcamCommands(in.call)
    IN IF command.k = "raise" THEN Raised(command.e, FALSE)
       ELSE IF in.res = "cancelled" THEN Raised("cancelled", TRUE)
       ELSE IF in.res \in {"notconnected", "connection", "timeout"}
       THEN Returned(FALSE, TRUE, FALSE, FALSE)
       ELSE IF in.res # "ok" THEN Raised(in.res, TRUE)
       ELSE IF ~is_success(in) THEN Returned(FALSE, TRUE, FALSE, FALSE)
       ELSE IF in.immediate_refresh /\ in.refresh_raises
       THEN Raised("refresh", TRUE)
       ELSE Returned(TRUE, TRUE, in.immediate_refresh, TRUE)

\* ArcamAvrCoordinator.async_send_command, coordinator.py lines 174-223: the
\* builder runs inside the try, before send_command; ArcamConnectionError and
\* ArcamTimeoutError are caught by name and everything else by
\* `except Exception`; the CancelledError of a cancelled task is no Exception.
AsyncSendCommand(in) ==
    LET command == ArcamCommands(in.call)
    IN IF command.k = "raise" THEN Returned(FALSE, FALSE, FALSE, FALSE)
       ELSE IF in.res = "cancelled" THEN Raised("cancelled", TRUE)
       ELSE IF in.res # "ok" THEN Returned(FALSE, TRUE, FALSE, FALSE)
       ELSE IF ~is_success(in) THEN Returned(FALSE, TRUE, FALSE, FALSE)
       ELSE IF in.immediate_refresh /\ in.refresh_raises
       THEN Returned(FALSE, TRUE, TRUE, FALSE)
       ELSE Returned(TRUE, TRUE, in.immediate_refresh, TRUE)

\* async_send_command is called and ends.
CoordinatorSend ==
    /\ pin.fn = "coordinator"
    /\ pout = NoOutput
    /\ pout' = Out("async_send_command", AsyncSendCommand(pin))
    /\ UNCHANGED <<session, pin>>

\* ------------------------------------------------------------ media player
\* What `self.coordinator.data.get("mute") if self.coordinator.data else None`
\* can be: None for no data or an undecoded mute state, False, True.
\* async_mute_volume(mute) is requested up to MaxMuteCalls times: the mute
\* state known at the first request, the result of each async_send_command,
\* and the mute state the refresh after a successful command stores.
MuteInput(in) ==
    \E known, refreshed \in {"None", "False", "True"} : \E m \in BOOLEAN :
    \E results \in [1..MaxMuteCalls -> BOOLEAN] :
        in = [fn |-> "mute", known |-> known, mute |-> m, results |-> results,
              refreshed |-> refreshed]

\* The requests made so far: their number, the toggle-mute commands handed to
\* async_send_command, the mute state known before the last request and
\* after it, and whether the last request sent the command.
MuteCalls ==
    IF pout = NoOutput
    THEN [k |-> "mute", calls |-> 0, toggles |-> 0, was |-> pin.known,
          known |-> pin.known, sent |-> FALSE]
    ELSE pout.r

\* ArcamAvrMediaPlayer.async_mute_volume, media_player.py lines 209-225.
\* async_send_command refreshes the coordinator's data only after a
\* successful command (coordinator.py lines 209-211).
AsyncMuteVolume(cur, mute, success, refreshed) ==
    LET current_mute == cur.known
        send == current_mute # (IF mute THEN "True" ELSE "False")
    IN [k |-> "mute", calls |-> cur.calls + 1,
        toggles |-> IF send THEN cur.toggles + 1 ELSE cur.toggles,
        was |-> current_mute,
        known |-> IF send /\ success THEN refreshed ELSE current_mute,
        sent |-> send]

\* async_mute_volume(mute) is called and ends.
MuteVolume ==
    /\ pin.fn = "mute"
    /\ MuteCalls.calls < MaxMuteCalls
    /\ pout' = Out("async_mute_volume",
                   AsyncMuteVolume(MuteCalls, pin.mute,
                                   pin.results[MuteCalls.calls + 1],
                                   pin.refreshed))
    /\ UNCHANGED <<session, pin>>

\* --------------------------------------------------------- frame alignment
\* A well-formed frame of the device for zone 1: <St> <Zn> <Cc> <Ac> <Dl>
\* <Data...> <Et>, with up to MaxData bytes of data.
DeviceFrame(cc, data) ==
    <<START_BYTE, 1, cc, ANSWER_OK, Len(data)>> \o data \o <<END_BYTE>>

\* The device sends two well-formed frames one after the other. The first
\* `split` bytes are in the reader's buffer when the first read starts; the
\* others arrive in a later segment, either while that read waits or (late)
\* only after the wait_for around it has expired. The first read is made by
\* send_command or by the broadcast listener.
FramesInput(in) ==
    \E c1, c2 \in 0..MaxByte : \E n1, n2 \in 0..MaxData :
    \E d1 \in [1..n1 -> WireBytes], d2 \in [1..n2 -> WireBytes] :
    \E k \in 1..(12 + n1 + n2) : \E late \in BOOLEAN :
    \E who \in {"send_command", "_broadcast_listener"} :
        in = [fn |-> "frames", first |-> DeviceFrame(c1, d1),
              second |-> DeviceFrame(c2, d2), split |-> k, late |-> late,
              reader |-> who]

\* Two reads of _read_response on the connection. The first is made under
\* the wait_for of send_command (lines 156-159) or of the listener (lines
\* 259-262). The bytes it consumed are gone from the StreamReader whatever
\* its outcome; the next read, made when all bytes have arrived, starts
\* after them. It is the listener's next turn after a timeout (line 280) and
\* the read of the next send_command otherwise; after a timeout of
\* send_command the connection is given up and there is no next read.
TwoReads(in) ==
    LET stream == in.first \o in.second
        rd == ReadResponse([buf |-> Take(stream, in.split),
                            next |-> IF in.late THEN <<>>
                                     ELSE Drop(stream, in.split),
                            eof |-> FALSE])
        offset == Len(rd.data)
        rest == [buf |-> Drop(in.first \o in.second, offset), next |-> <<>>,
                 eof |-> FALSE]
        again == ~(in.reader = "send_command" /\ rd.out = "timeout")
        nx == ReadResponse(rest)
    IN [k |-> "reads", out |-> rd.out, offset |-> offset, again |-> again,
        next_out |-> IF again THEN nx.out ELSE "none",
        next_data |-> IF again THEN nx.data ELSE <<>>]

\* A read of a frame and the read that follows it.
FramesRead ==
    /\ pin.fn = "frames"
    /\ pout = NoOutput
    /\ pout' = Out("_read_response", TwoReads(pin))
    /\ UNCHANGED <<session, pin>>

\* The input is drawn; nothing has been applied to it.
InitFunctions ==
    /\ InitSession
    /\ \/ ReplyInput(pin)
       \/ InfoInput(pin)
       \/ CommandInput(pin)
       \/ BytesInput(pin)
       \/ BuilderInput(pin)
       \/ PayloadInput(pin)
       \/ VersionInput(pin)
       \/ CoordinatorInput(pin)
       \/ MuteInput(pin)
       \/ FramesInput(pin)
    /\ pout = NoOutput

NextFunctions ==
    \/ ReplyRead
    \/ InfoRead
    \/ CommandMade
    \/ CommandEncoded
    \/ RoundTrip
    \/ ResponseDecoded
    \/ BuilderCalled
    \/ PayloadDecoded
    \/ VersionDecoded
    \/ CoordinatorSend
    \/ MuteVolume
    \/ FramesRead

\* The functions of the protocol applied to inputs drawn from bounded sets.
SpecFunctions == InitFunctions /\ [][NextFunctions]_vars

\* disconnect() is called while a task of send_command is ready to run and has
\* not run yet.
DisconnectBusy ==
    /\ ~Quiet
    /\ Len(ready) <= MaxReady
    /\ Range(ready) \subseteq CallerTasks
    /\ pc[Api] = "idle"
    /\ Set(Enq([Cur EXCEPT !.pc[Api] = "call", !.aop = "disconnect"], Api))

\* send_command is called while the task of another send_command is ready to
\* run and has not run yet.
CallBusy(c) ==
    /\ ~Quiet
    /\ Len(ready) <= MaxReady
    /\ Range(ready) \subseteq CallerTasks
    /\ pc[Caller(c)] = "idle"
    /\ Set(Enq([Cur EXCEPT !.pc[Caller(c)] = "call"], Caller(c)))

\* The task that called send_command is cancelled while it waits for the
\* lock or for the reply.
CallerCancel(c) ==
    /\ Quiet
    /\ pc[Caller(c)] \in {"lock", "reply"}
    /\ Suspended(Cur, Caller(c))
    /\ Set(Cancel(Cur, Caller(c)))

\* The steps of a Session that is used without broadcast listener, on a device
\* that answers, stays silent or closes the connection, and disconnected or
\* sent a command at any time; a call of send_command may be cancelled.
NextRace ==
    \/ \E c \in Callers : Call(c)
    \/ \E c \in Callers : CallBusy(c)
    \/ \E c \in Callers : CallerCancel(c)
    \/ \E op \in {"connect", "disconnect"} : ApiCall(op)
    \/ DisconnectBusy
    \/ \E c \in Callers : CallerStart(c)
    \/ \E c \in Callers : CallerLocked(c)
    \/ \E c \in Callers : CallerResume(c)
    \/ HandlerRun
    \/ \E j \in ReconnectSlots : ReconnectFirst(j)
    \/ \E j \in ReconnectSlots : ReconnectAfterSleep(j)
    \/ \E j \in ReconnectSlots : ReconnectAfterConnect(j)
    \/ ApiFirst
    \/ ApiNext
    \/ \E s \in Socks : ConnLostRun(s)
    \/ \E s \in Socks, c \in Callers : DeviceReply(s, c)
    \/ \E s \in Socks : PeerClose(s)
    \/ \E c \in Callers : CommandTimeout(c)
    \/ \E j \in ReconnectSlots : SleepDone(j)
    \/ \E t \in ReconnectTasks \cup {Api}, r \in {"ok", "fail"} :
          ConnectOutcome(t, r)

\* The Session with calls of disconnect() that overlap a command.
SpecRace == Init /\ [][NextRace]_vars

\* A task of the event loop runs: the loop runs the head of its ready queue.
RunReady ==
    \/ \E c \in Callers : CallerStart(c) \/ CallerLocked(c) \/ CallerResume(c)
    \/ HandlerRun
    \/ \E j \in ReconnectSlots :
          ReconnectFirst(j) \/ ReconnectAfterSleep(j) \/ ReconnectAfterConnect(j)
    \/ ApiFirst
    \/ ApiNext
    \/ \E s \in Socks : ConnLostRun(s)

\* The same Session on an event loop that keeps running its ready tasks and
\* whose timers fire: the timer of wait_for in send_command (lines 156-159)
\* ends the wait for a reply that does not come.
SpecLive ==
    /\ Init /\ [][NextRace]_vars
    /\ WF_vars(RunReady)
    /\ \A c \in Callers : SF_vars(CommandTimeout(c))
\* ---------------------------------------------------------------- properties
\* C1: at most one send_command call is between writing its command and
\* finishing the read of its reply.  A caller that waits for its reply holds
\* the command lock, no two callers wait for a reply at once, and a command
\* is written only while no other caller waits for a reply.
C1_OneCommandInFlight ==
    /\ \A c \in Callers : InFlight(Cur, c) => lock = c
    /\ \A c, d \in Callers : InFlight(Cur, c) /\ InFlight(Cur, d) => c = d
    /\ hist.wrote # 0 => \A d \in Callers \ {hist.wrote} : ~InFlight(Cur, d)

\* A caller waits for its reply while another caller is queued on the lock.
C1_Witness ==
    \E c, d \in Callers :
        InFlight(Cur, c) /\ pc[Caller(d)] = "lock" /\ d \in Range(lockq)

\* C2: the broadcast listener does not read from the socket while a
\* send_command call holds the command lock.  When a call, holding the lock,
\* writes its command and turns to read the reply, no listener has a read
\* pending on the socket; and a listener reads a frame only while no caller
\* waits for a reply.
C2_ListenerIdleDuringCommand ==
    /\ hist.wrote # 0 => ~hist.listening
    /\ hist.lread # {} => \A c \in Callers : ~InFlight(Cur, c)

\* C3: the reply the device sends to a command goes to the send_command call
\* that sent the command.  No listener reads it and it is never passed to
\* the broadcast callback.
C3_ReplyNotConsumedByListener ==
    \A c \in Callers : ReplyTo(c) \notin (hist.lread \cup hist.cbf)

\* C4, as amended: a send_command that fails with a timeout or an OS-level
\* error returns to its caller in the step of the failure, having only
\* scheduled _handle_connection_lost; when that handler has run the Session
\* is not-connected, and a reconnection task is running if the Session was
\* still marked connected when the handler ran.
C4_FailureSchedulesReconnection ==
    /\ hist.res \in {"timeout", "connection"} =>
          /\ pc[Caller(hist.caller)] = "idle"
          /\ Handler \in Range(ready)
          /\ hist.op = "none"
    /\ hist.op \in {"lost", "notlost"} => ~connected
    /\ hist.op = "lost" => ReconnectLive(Cur)

\* The handler scheduled by a failed send_command has just started the
\* reconnection task.
C4_Witness ==
    /\ hist.op = "lost"
    /\ ~connected
    /\ ReconnectLive(Cur)
    /\ pc[Reconnector(rtask)] = "new"

\* C4, as stated: whenever the handler scheduled by a failed send_command has
\* run, the Session is not-connected and a reconnection task is running.
C4_AlwaysReconnecting ==
    hist.op \in {"lost", "notlost"} => ~connected /\ ReconnectLive(Cur)

\* C5: when send_command or the broadcast listener finds the end of the
\* stream on the socket of a Connected Session (the device has closed the
\* connection), the loss is handled: _handle_connection_lost is scheduled.
C5_EndOfStreamIsHandled ==
    hist.eof /\ connected => Handler \in Range(ready)

\* C6: the attempt counter never exceeds MAX_RECONNECT_ATTEMPTS, and a
\* reconnection task that gives up has made exactly MAX_RECONNECT_ATTEMPTS
\* connection attempts since the connection was lost.
C6_FiveAttemptsThenGiveUp ==
    /\ attempts <= MAX_RECONNECT_ATTEMPTS
    /\ hist.op = "gaveup" => hist.made = MAX_RECONNECT_ATTEMPTS

\* C7: while the Session is not-connected after a loss, the wait before the
\* k-th connection attempt since that loss is RECONNECT_DELAY_BASE * 2^(k-1):
\* base before the first, twice the previous wait before every later one.
C7_BackoffDoubles ==
    \A j \in ReconnectSlots :
        pc[Reconnector(j)] = "sleep" /\ ~connected =>
            delay[j] = RECONNECT_DELAY_BASE * 2 ^ made[j]

\* C8: when the reconnection task ends with "Reconnection successful", the
\* Session is Connected, the attempt counter is 0, the task has ended, and a
\* broadcast listener has been started exactly if a callback is registered.
C8_AfterReconnection ==
    hist.op = "reconnected" =>
        /\ connected
        /\ attempts = 0
        /\ rtask = Finished
        /\ callback <=> (ListenerLive(Cur) /\ pc[Listener(btask)] = "new")

\* C9: at most one reconnection task is live, and it is the one
\* _reconnect_task refers to.
C9_OneReconnectionTask ==
    /\ Cardinality({j \in ReconnectSlots : pc[Reconnector(j)] # "free"}) <= 1
    /\ \A j \in ReconnectSlots : pc[Reconnector(j)] # "free" => rtask = j

\* A connection loss has been handled while the reconnection task was
\* already sleeping or connecting.
C9_Witness ==
    /\ hist.op = "lost"
    /\ ReconnectLive(Cur)
    /\ pc[Reconnector(rtask)] \in {"sleep", "conn"}

\* C10: at most one broadcast listener task is live.
C10_OneListenerTask ==
    Cardinality({i \in ListenerSlots : pc[Listener(i)] # "free"}) <= 1
\* C11: when disconnect() returns, no listener task and no reconnection task
\* is running for the Session.
C11_DisconnectStopsTasks ==
    hist.api = "disconnect" =>
        /\ \A i \in ListenerSlots : pc[Listener(i)] = "free"
        /\ \A j \in ReconnectSlots : pc[Reconnector(j)] = "free"

\* C12: after disconnect() the Session does not reconnect by itself: the
\* reconnection task never establishes a connection for a Session whose socket
\* handles disconnect() has cleared.
C12_NoRevival == ~hist.revived


\* C13: a send_command that finds the Session not connected raises
\* ConnectionError in a step that writes no bytes, schedules no connection-lost
\* handler, starts no task, changes no field of the Session and no socket, and
\* leaves the command lock released or handed to the next waiting caller.
C13_NotConnectedIsInert ==
    [][hist'.res = "notconnected" =>
          /\ hist'.wrote = 0
          /\ UNCHANGED <<connected, reader, writer, callback, btask, rtask,
                         attempts, sock, made, delay>>
          /\ \A t \in ListenerTasks \cup ReconnectTasks : pc'[t] = pc[t]
          /\ Handler \in Range(ready') => Handler \in Range(ready)
          /\ lock' # hist'.caller
          /\ hist'.caller \notin Range(lockq')]_vars

\* C13: some send_command has found the Session not connected.
C13_Witness == hist.res = "notconnected"

\* C14: when the bytes that the reads of a reply returned do not form a valid
\* frame (fewer than 6 bytes, first byte not START, last byte not END, or
\* length byte different from the number of bytes minus 6), send_command
\* raises ProtocolError without scheduling anything, and a Response is
\* returned only for a valid frame and carries that frame's fields.
C14_InvalidReplyRaises ==
    pin.fn = "reply" /\ pout.k # "none"
      /\ ~(pout.k = "raise" /\ pout.e = "ArcamTimeoutError") =>
        LET b == pout.got
            valid == /\ Len(b) >= 6
                     /\ b[1] = START_BYTE
                     /\ b[Len(b)] = END_BYTE
                     /\ b[5] = Len(b) - 6
        IN /\ ~valid => pout.k = "raise" /\ pout.e = "ArcamProtocolError"
                           /\ ~pout.lost
           /\ pout.k = "return" =>
                 /\ valid
                 /\ pout.response.zone = b[2]
                 /\ pout.response.command_code = b[3]
                 /\ pout.response.answer_code = b[4]
                 /\ pout.response.data = SubSeq(b, 6, Len(b) - 1)

\* C14: a reply of six bytes that starts with START and does not end with
\* END was read, and ProtocolError raised.
C14_Witness ==
    /\ pin.fn = "reply" /\ pout.k = "raise" /\ pout.e = "ArcamProtocolError"
    /\ Len(pout.got) = 6 /\ pout.got[1] = START_BYTE /\ pout.got[5] = 0
    /\ pout.got[6] # END_BYTE

\* C15: a reply that decodes is returned to the caller whatever its operation
\* code is, without scheduling the connection-lost handler, and it passes
\* validate_response exactly when its code is the command's.
C15_MismatchIsReturned ==
    pin.fn = "reply" /\ pout.k # "none"
      /\ ~(pout.k = "raise" /\ pout.e = "ArcamTimeoutError") =>
        LET b == pout.got
            decodes == /\ Len(b) >= 6
                       /\ b[1] = START_BYTE
                       /\ b[Len(b)] = END_BYTE
                       /\ b[5] = Len(b) - 6
        IN /\ decodes => /\ pout.k = "return"
                          /\ pout.response.command_code = b[3]
                          /\ ~pout.lost
           /\ pout.k = "return" =>
                 (pout.valid <=> pout.response.command_code = pin.code)

\* C15: a reply with another operation code than the command's was returned.
C15_Witness ==
    /\ pin.fn = "reply" /\ pout.k = "return"
    /\ pout.response.command_code # pin.code /\ ~pout.valid

\* C16: a listener does not end because a frame it read fails to decode or a
\* read came back short.
C16_ListenerSurvivesBadFrame == hist.lexit \notin {"bad", "short"}

\* C17: a listener that is resumed by its poll timeout and reads nothing in
\* that step is polling again at the end of the step, if the Session is then
\* connected and its stream has not ended.
C17_TimeoutKeepsPolling ==
    hist.ltimeout # 0 /\ hist.lread = {} /\ is_connected(Cur)
      /\ ~sock[reader].eof =>
        pc[Listener(hist.ltimeout)] = "poll"

\* C18: a connect() that finds the Session connected returns in a step that
\* opens no socket and leaves reader, writer, connected flag, attempt counter,
\* listener task, callback, reconnection task, lock and every other task as
\* they were.
C18_ConnectWhenConnectedIsNoOp ==
    [][hist'.noop =>
          /\ hist'.api = "connect" /\ hist'.ares = "ok"
          /\ UNCHANGED <<connected, reader, writer, attempts, btask, callback,
                         rtask, sock, lock, lockq, made, delay>>
          /\ \A t \in Tasks \ {Api} : pc'[t] = pc[t]
          /\ ready' = Tail(ready)]_vars

\* C18: connect() has returned at once on a connected Session that has a
\* listener and an attempt counter above zero.
C18_Witness == hist.noop /\ callback /\ btask > 0 /\ attempts > 0

\* C19: when connect() raises ConnectionError the Session is not connected.
C19_FailedConnectLeavesNotConnected ==
    hist.api = "connect" /\ hist.ares = "connection" => ~is_connected(Cur)

\* C20: whenever the query-software-version command of get_device_info fails
\* (not connected, timeout, I/O error, protocol error, a read refused by the
\* stream), answers with a non-success status or carries a payload that does
\* not decode, get_device_info raises nothing and returns a result with the
\* connected flag and the version "Unknown".
C20_DeviceInfoNeverRaises ==
    pin.fn = "info" /\ pout.k # "none" /\ pin.res # "cancelled" =>
        /\ pout.k = "dict"
        /\ pout.connected = pin.connected
        /\ (\/ pin.res # "ok"
            \/ pin.answer_code # ANSWER_OK
            \/ Len(pin.data) # VERSION_LENGTH
            \/ \E i \in DOMAIN pin.data : pin.data[i] > 127)
             => pout.version = Unknown

\* C20: get_device_info has returned "Unknown" after a protocol error of its
\* command.
C20_Witness ==
    /\ pin.fn = "info" /\ pin.res = "protocol"
    /\ pout.k = "dict" /\ pout.version = Unknown

\* C21: a command is written only in the step in which its send_command call
\* passes the lock, never again while the call waits for its reply or after it
\* has ended, and never in a step of the connection-lost handler or of the
\* reconnection task; a call that ends with an error has ended for good: its
\* task is idle, it neither holds nor waits for the lock and it is not ready
\* to run.
C21_CommandWrittenOnce ==
    [][/\ hist'.wrote # 0 =>
             /\ pc[Caller(hist'.wrote)] \in {"call", "lock"}
             /\ pc'[Caller(hist'.wrote)] \in {"reply", "idle"}
             /\ hist'.op = "none"
       /\ hist'.res \notin {"none", "ok"} =>
             /\ pc'[Caller(hist'.caller)] = "idle"
             /\ lock' # hist'.caller
             /\ hist'.caller \notin Range(lockq')
             /\ Caller(hist'.caller) \notin Range(ready')
             /\ hist'.wrote \in {0, hist'.caller}]_vars

\* C21: the reconnection task has just replaced the connection on which the
\* command of a call is still in flight, and the step has written nothing.
C21_Witness ==
    /\ hist.op = "reconnected" /\ hist.wrote = 0
    /\ \E c \in Callers : pc[Caller(c)] = "reply" /\ rsock[Caller(c)] # reader

\* C22: while the connected flag is false the Session holds no reader and no
\* writer.
C22_HandlesOnlyWhileConnected == ~connected => reader = 0 /\ writer = 0

\* C23: for every valid Command, encoding it, putting a status byte after the
\* operation code and decoding the frame as a response gives a Response with
\* the Command's zone, operation code and payload, also when the payload
\* holds START or END bytes.
C23_FramingRoundTrip ==
    pin.fn = "command" /\ pout.k # "none" /\ pout.by = "round_trip" =>
        /\ pout.r.k = "response"
        /\ pout.r.zone = pin.zone
        /\ pout.r.command_code = pin.command_code
        /\ pout.r.data = pin.data

\* C23: a Command whose payload is an END byte followed by a START byte has
\* made the round trip.
C23_Witness ==
    /\ pin.fn = "command" /\ pout.k = "response" /\ pout.by = "round_trip"
    /\ pin.data = <<END_BYTE, START_BYTE>>

\* C24: decode_response returns a Response exactly for the inputs of at least
\* 6 bytes that start with START, end with END and whose fifth byte is their
\* length minus 6, and raises ProtocolError for every other input; the
\* Response has bytes 2 to 4 as zone, operation code and status and the bytes
\* between the fifth and the last as payload, whatever zone and code are.
C24_DecodeAcceptsExactly ==
    pin.fn = "bytes" /\ pout.k # "none" /\ pout.by = "decode_response" =>
        LET b == pin.data
            accepted == /\ Len(b) >= 6
                        /\ b[1] = START_BYTE
                        /\ b[Len(b)] = END_BYTE
                        /\ b[5] = Len(b) - 6
        IN IF accepted
           THEN /\ pout.r.k = "response"
                /\ pout.r.zone = b[2]
                /\ pout.r.command_code = b[3]
                /\ pout.r.answer_code = b[4]
                /\ pout.r.data = SubSeq(b, 6, Len(b) - 1)
           ELSE pout.r.k = "raise" /\ pout.r.e = "ArcamProtocolError"

\* C24: a frame with one byte of payload and a zone and an operation code
\* that no table knows has been accepted.
C24_Witness ==
    /\ pin.fn = "bytes" /\ pout.k = "response" /\ pout.by = "decode_response"
    /\ Len(pin.data) = 7 /\ pout.r.zone = START_BYTE
    /\ pout.r.command_code = END_BYTE

\* C25: the frame of a valid Command is START, zone, operation code, the
\* number of payload bytes, the payload bytes, END; it has len(payload) + 5
\* bytes, and power-on for zone 1 gives 21 01 00 01 01 0D.
C25_EncodeLayout ==
    pin.fn = "command" /\ pout.k # "none" /\ pout.by = "encode_command" =>
        LET b == pout.r.data
            n == Len(pin.data)
        IN /\ Len(b) = n + 5
           /\ b[1] = START_BYTE /\ b[2] = pin.zone /\ b[3] = pin.command_code
           /\ b[4] = n
           /\ \A i \in 1..n : b[4 + i] = pin.data[i]
           /\ b[n + 5] = END_BYTE
           /\ (pin.zone = 1 /\ pin.command_code = 0 /\ pin.data = <<1>>) =>
                 b = <<33, 1, 0, 1, 1, 13>>

\* C25: power-on for zone 1 has been encoded.
C25_Witness ==
    /\ pin.fn = "command" /\ pout.k = "bytes" /\ pout.by = "encode_command"
    /\ pin.zone = 1 /\ pin.command_code = 0 /\ pin.data = <<1>>

\* C26: constructing a Command with a zone outside {1,2}, an operation code
\* outside 0..255 or a payload of more than 255 bytes raises ProtocolError,
\* and a Command that is constructed has exactly the zone, code and payload
\* it was given, all three within their bounds.
C26_CommandValidated ==
    pin.fn = "command" /\ pout.k # "none" /\ pout.by = "ArcamCommand" =>
        IF pin.zone \notin {1, 2} \/ pin.command_code \notin 0..255
              \/ Len(pin.data) > 255
        THEN pout.r.k = "raise" /\ pout.r.e = "ArcamProtocolError"
        ELSE /\ pout.r.k = "command"
             /\ pout.r.zone = pin.zone
             /\ pout.r.command_code = pin.command_code
             /\ pout.r.data = pin.data

\* C26: a Command with a payload of 256 bytes, zone and code in range, was
\* refused.
C26_Witness ==
    /\ pin.fn = "command" /\ pout.k = "raise" /\ pout.by = "ArcamCommand"
    /\ pin.zone = 1 /\ pin.command_code = 0 /\ Len(pin.data) = 256

\* C27: every builder called with a zone outside {1,2} raises ValueError, as
\* does set_volume with a volume outside 0..99 and simulate_rc5 with a byte
\* outside 0..255; a call that raises returns no Command, and a builder other
\* than select_source whose arguments are all in range returns a Command for
\* the zone.
C27_BuildersValidate ==
    pin.fn = "builder" /\ pout.k # "none" =>
        LET rejected ==
                \/ pin.zone \notin {1, 2}
                \/ pin.name = "set_volume" /\ pin.a \notin 0..99
                \/ pin.name = "simulate_rc5"
                      /\ (pin.a \notin 0..255 \/ pin.b \notin 0..255)
        IN /\ rejected => pout.r = [k |-> "raise", e |-> "ValueError"]
           /\ ~rejected /\ pin.name # "select_source" =>
                 pout.r.k = "command" /\ pout.r.zone = pin.zone

\* C27: simulate_rc5 was called for zone 1 with a second byte of 256, and
\* raised.
C27_Witness ==
    /\ pin.fn = "builder" /\ pout.k = "raise"
    /\ pin.name = "simulate_rc5" /\ pin.zone = 1 /\ pin.a = 16 /\ pin.b = 256

\* C28: select_source for zone 1 or 2 with any upper/lower-case spelling of a
\* name of the source table returns the RC5-simulate command with the two
\* bytes of that name ("cd" and "CD" give 10 76), and with a text that is no
\* spelling of any name of the table it raises ValueError.
C28_SourceNameCaseInsensitive ==
    pin.fn = "builder" /\ pout.k # "none" /\ pin.name = "select_source"
          /\ pin.zone \in {1, 2} =>
        LET names == {n \in DOMAIN RC5_SOURCES :
                        /\ Len(n) = Len(pin.source)
                        /\ \A i \in 1..Len(n) :
                              pin.source[i] \in {n[i], n[i] + 32}}
        IN /\ names = {} => pout.r = [k |-> "raise", e |-> "ValueError"]
           /\ \A n \in names :
                 /\ pout.r = [k |-> "command", zone |-> pin.zone,
                              command_code |-> 8, data |-> RC5_SOURCES[n]]
                 /\ n = <<67, 68>> => pout.r.data = <<16, 118>>

\* C28: select_source("cd") returned the command with payload 10 76.
C28_Witness ==
    /\ pin.fn = "builder" /\ pout.k = "command"
    /\ pin.name = "select_source" /\ pin.source = <<99, 100>>
    /\ pout.r.data = <<16, 118>>

\* C29: the four payload decoders never raise; each returns no value for every
\* payload whose length is not 1; decode_source also returns no value for one
\* byte that is no code of the source table, and decode_volume returns the
\* byte of a 1-byte payload as it is, whatever its value.
C29_DecodersTotal ==
    pin.fn = "payload" /\ pout.k # "none" =>
        /\ pout.r.k \in {"None", "value"}
        /\ Len(pin.data) # 1 => pout.r.k = "None"
        /\ (pin.decoder = "decode_source_response" /\ Len(pin.data) = 1
               /\ pin.data[1] \notin 0..14) => pout.r.k = "None"
        /\ (pin.decoder = "decode_volume_response" /\ Len(pin.data) = 1) =>
               pout.r = [k |-> "value", v |-> pin.data[1]]

\* C29: decode_source was given an empty payload and returned no value.
C29_Witness ==
    /\ pin.fn = "payload" /\ pout.k = "None"
    /\ pin.decoder = "decode_source_response" /\ pin.data = <<>>

\* C30: decode_power and decode_mute, given a 1-byte payload, return true (on,
\* muted) when the byte is nonzero and false only when it is zero.
C30_NonzeroIsOn ==
    (/\ pin.fn = "payload" /\ pout.k # "none"
     /\ pin.decoder \in {"decode_power_response", "decode_mute_response"}
     /\ Len(pin.data) = 1) =>
        pout.r = [k |-> "value", v |-> (pin.data[1] # 0)]

C40_NullPaddedVersionDecodes ==
    (/\ pin.fn = "version" /\ pout.k # "none"
     /\ Len(pin.data) = 13 /\ pin.data[13] = 0
     /\ \A i \in 1..12 : pin.data[i] <= 127) =>
        /\ pout.r.k = "value"
        /\ pout.r.v = DecodeVersionResponse(SubSeq(pin.data, 1, 12)).text

\* C32: when the builder handed to async_send_command rejects its arguments
\* (zone outside {1,2}, volume outside 0..99, RC5 byte outside 0..255, a text
\* that is no source name), send_command is not called, nothing is written,
\* the Session is as it was, no refresh and no fast updates are triggered,
\* and the call returns False.
C32_InvalidArgumentNeverSent ==
    pin.fn = "coordinator" /\ pout.k # "none" =>
        LET c == pin.call
            rejected ==
                \/ c.zone \notin {1, 2}
                \/ c.name = "set_volume" /\ c.a \notin 0..99
                \/ c.name = "simulate_rc5" /\ c.b \notin 0..255
                \/ c.name = "select_source" /\ c.source = <<84, 86>>
        IN rejected =>
              /\ pout.r.k = "return" /\ pout.r.value = FALSE
              /\ ~pout.r.sent /\ ~pout.r.refreshed /\ ~pout.r.fast
              /\ ~connected /\ writer = 0 /\ hist = InitHist

\* C32: set_volume(100) for zone 1 was handed to async_send_command, which
\* returned False.
C32_Witness ==
    /\ pin.fn = "coordinator" /\ pout.k = "return"
    /\ pin.call.name = "set_volume" /\ pin.call.zone = 1 /\ pin.call.a = 100
    /\ pout.r.value = FALSE /\ ~pout.r.sent

C34_MuteTogglesOnce ==
    pin.fn = "mute" /\ pout.k # "none" =>
        /\ pout.r.sent <=> pout.r.was # (IF pin.mute THEN "True" ELSE "False")
        /\ (pout.r.calls = 2 /\ pout.r.was = pin.known) => pout.r.toggles <= 1

\* C35: the read that follows a read of a frame, whatever the outcome of the
\* first (frame, timeout, short read), starts at a frame boundary of the
\* device's byte stream, and what it returns as a frame is a frame the device
\* sent.
C35_FrameAlignment ==
    (pin.fn = "frames" /\ pout.k # "none" /\ pout.r.again) =>
        /\ pout.r.offset \in {0, Len(pin.first), Len(pin.first) + Len(pin.second)}
        /\ pout.r.next_out = "frame" => pout.r.next_data \in {pin.first, pin.second}

\* C36: the Session has at most one open socket: when a connection is
\* established and replaces the reader and the writer, the socket of the
\* writer that is replaced has been closed.
C36_OneOpenSocket ==
    /\ ~hist.leak
    /\ Cardinality({s \in Socks : sock[s].st = "open"}) <= 1

\* C37: no send_command writes its command to a socket on which an earlier
\* send_command has timed out.
C37_NoWriteAfterTimeout ==
    [][hist'.wrote # 0 => ~sock[writer].tout]_vars

C39_ProtocolErrorIsInert ==
    [][hist'.res = "protocol" =>
          LET Handlers(q) == Cardinality({n \in DOMAIN q : q[n] = Handler})
          IN /\ UNCHANGED <<connected, callback, btask, rtask, attempts,
                            made, delay>>
             /\ (reader' = 0) = (reader = 0)
             /\ (writer' = 0) = (writer = 0)
             /\ reader # 0 => sock'[reader'].st = sock[reader].st
             /\ writer # 0 => sock'[writer'].st = sock[writer].st
             /\ \A u \in ListenerTasks \cup ReconnectTasks : pc'[u] = pc[u]
             /\ Handlers(ready') = Handlers(ready)
             /\ hist'.op = "none"]_vars

\* C39: a call on a Connected Session has just raised ProtocolError and the
\* Session is still Connected on an open socket.
C39_Witness ==
    /\ hist.res = "protocol"
    /\ connected /\ writer # 0 /\ sock[writer].st = "open"
    /\ Handler \notin Range(ready)

====
